---------------------------- MODULE Spec2Model ----------------------------
(***************************************************************************)
(* Response-completion controller of the deep-research assistant:          *)
(* generateWithCompletion and the text helpers it calls                    *)
(* (src/src/components/DeepResearch/hooks/responseCompletion.ts).          *)
(* Strings are TLA+ strings; a character is a string of length 1.          *)
(***************************************************************************)
EXTENDS Integers, Sequences, FiniteSets, TLC

(***************************************************************************)
(* Program constants.                                                      *)
(***************************************************************************)
RESPONSE_TIMEOUT == 600000
MAX_RETRIES == 3
CONTINUATION_PROMPT == "Please complete your previous response starting from where you left off."
AbruptMinLength == 100
LoopMinRepeats == 5
MaxOverlapWords == 10
ShortPromptLength == 500
InvalidJsonDelay == 2000
RetryDelay == 1000

(***************************************************************************)
(* Bounds of the model.                                                    *)
(***************************************************************************)
\* largest explicit options.maxRetries the caller passes
MaxRetriesOption == 2
\* number of filler characters of the long prompt is ShortPromptLength + this
LongPromptExtra == 1

(***************************************************************************)
(* String primitives (String.prototype methods and regex classes).         *)
(***************************************************************************)
SetMin(S) == CHOOSE m \in S : \A x \in S : m <= x
SetMax(S) == CHOOSE m \in S : \A x \in S : m >= x
Min2(a, b) == IF a <= b THEN a ELSE b

CharAt(s, i) == SubSeq(s, i, i)

LowerLetters ==
  {"a","b","c","d","e","f","g","h","i","j","k","l","m",
   "n","o","p","q","r","s","t","u","v","w","x","y","z"}
UpperLetters ==
  {"A","B","C","D","E","F","G","H","I","J","K","L","M",
   "N","O","P","Q","R","S","T","U","V","W","X","Y","Z"}
Digits == {"0","1","2","3","4","5","6","7","8","9"}
\* \s
IsSpace(c) == c \in {" ", "\n", "\t", "\r", "\f"}
\* \w
IsWordChar(c) == c \in LowerLetters \cup UpperLetters \cup Digits \cup {"_"}

UpperToLower ==
  [c \in UpperLetters |->
     CASE c = "A" -> "a" [] c = "B" -> "b" [] c = "C" -> "c" [] c = "D" -> "d"
       [] c = "E" -> "e" [] c = "F" -> "f" [] c = "G" -> "g" [] c = "H" -> "h"
       [] c = "I" -> "i" [] c = "J" -> "j" [] c = "K" -> "k" [] c = "L" -> "l"
       [] c = "M" -> "m" [] c = "N" -> "n" [] c = "O" -> "o" [] c = "P" -> "p"
       [] c = "Q" -> "q" [] c = "R" -> "r" [] c = "S" -> "s" [] c = "T" -> "t"
       [] c = "U" -> "u" [] c = "V" -> "v" [] c = "W" -> "w" [] c = "X" -> "x"
       [] c = "Y" -> "y" [] c = "Z" -> "z"]
LowerChar(c) == IF c \in UpperLetters THEN UpperToLower[c] ELSE c

RECURSIVE LowerFrom(_, _)
LowerFrom(s, i) ==
  IF i > Len(s) THEN "" ELSE LowerChar(CharAt(s, i)) \o LowerFrom(s, i + 1)
\* String.prototype.toLowerCase
ToLowerCase(s) == LowerFrom(s, 1)

\* s.substring(at - 1, at - 1 + sub.length) === sub
StartsAt(s, sub, at) ==
  /\ at >= 1
  /\ at + Len(sub) - 1 <= Len(s)
  /\ SubSeq(s, at, at + Len(sub) - 1) = sub
\* the same, compared case-insensitively (regex flag i)
StartsAtNoCase(s, sub, at) ==
  /\ at >= 1
  /\ at + Len(sub) - 1 <= Len(s)
  /\ ToLowerCase(SubSeq(s, at, at + Len(sub) - 1)) = ToLowerCase(sub)

\* String.prototype.includes
Includes(s, sub) == \E i \in 1..(Len(s) - Len(sub) + 1) : StartsAt(s, sub, i)

\* String.prototype.trim
Trim(s) ==
  LET solid == {i \in 1..Len(s) : ~IsSpace(CharAt(s, i))}
  IN  IF solid = {} THEN "" ELSE SubSeq(s, SetMin(solid), SetMax(solid))

\* String.prototype.substring(0, n)
Substring0(s, n) == SubSeq(s, 1, Min2(n, Len(s)))

\* the maximal runs of characters of s that are not white space, in order
RunStarts(s) ==
  {i \in 1..Len(s) :
     ~IsSpace(CharAt(s, i)) /\ (i = 1 \/ IsSpace(CharAt(s, i - 1)))}
RunEnd(s, i) ==
  SetMin({j \in i..Len(s) : j = Len(s) \/ IsSpace(CharAt(s, j + 1))})
NthOf(set, n) == CHOOSE i \in set : Cardinality({j \in set : j <= i}) = n
SplitRuns(s) ==
  [n \in 1..Cardinality(RunStarts(s)) |->
     SubSeq(s, NthOf(RunStarts(s), n), RunEnd(s, NthOf(RunStarts(s), n)))]
\* s.split(/\s+/): a leading or trailing separator leaves an empty token
SplitWhitespace(s) ==
  IF s = "" THEN <<"">>
  ELSE (IF IsSpace(CharAt(s, 1)) THEN <<"">> ELSE <<>>)
       \o SplitRuns(s)
       \o (IF IsSpace(CharAt(s, Len(s))) THEN <<"">> ELSE <<>>)

RECURSIVE JoinSpace(_)
\* words.join(' ')
JoinSpace(words) ==
  IF Len(words) = 0 THEN ""
  ELSE IF Len(words) = 1 THEN words[1]
  ELSE words[1] \o " " \o JoinSpace(Tail(words))

RECURSIVE Repeat(_, _)
\* String.prototype.repeat
Repeat(s, n) ==
  IF n <= 0 THEN ""
  ELSE IF n = 1 THEN s
  ELSE LET half == Repeat(s, n \div 2)
       IN  half \o half \o (IF n % 2 = 1 THEN s ELSE "")

(***************************************************************************)
(* detectResponseIssues                                                    *)
(***************************************************************************)
\* first index >= pos that holds no whitespace (Len(s) + 1 if none)
SkipSpace(s, pos) ==
  SetMin({j \in pos..(Len(s) + 1) : j = Len(s) + 1 \/ ~IsSpace(CharAt(s, j))})

\* \b\w+\b starting at i: the index of the word's last character, 0 if no
\* word starts at i
WordEnd(s, i) ==
  IF /\ i >= 1 /\ i <= Len(s)
     /\ IsWordChar(CharAt(s, i))
     /\ (i = 1 \/ ~IsWordChar(CharAt(s, i - 1)))
  THEN SetMin({j \in i..Len(s) : j = Len(s) \/ ~IsWordChar(CharAt(s, j + 1))})
  ELSE 0

RECURSIVE RepeatsFrom(_, _, _, _)
\* (?:\s+\1){n,} matched at pos, \1 = w, case-insensitively
RepeatsFrom(s, pos, w, n) ==
  IF n = 0 THEN TRUE
  ELSE LET q == SkipSpace(s, pos)
       IN  /\ q > pos
           /\ StartsAtNoCase(s, w, q)
           /\ RepeatsFrom(s, q + Len(w), w, n - 1)

\* /(\b\w+\b)(?:\s+\1){5,}/gi.test(text)
LoopPatternTest(text) ==
  \E i \in 1..Len(text) :
    LET e == WordEnd(text, i)
    IN  /\ e > 0
        /\ RepeatsFrom(text, e + 1, SubSeq(text, i, e), LoopMinRepeats)

\* mutant of EndsWithPunctuation: a closing brace or bracket ends a text too
EndsWithPunctuationOrCloser(text) ==
  LET t == Trim(text)
  IN  /\ Len(t) > 0
      /\ CharAt(t, Len(t)) \in {".", "!", "?", "}", "]"}

\* text.trim().match(/[.!?]$/)
EndsWithPunctuation(text) ==
  LET t == Trim(text)
  IN  /\ Len(t) > 0
      /\ CharAt(t, Len(t)) \in {".", "!", "?"}

NoIssue == [hasIssue |-> FALSE, reason |-> ""]

\* mutant of detectResponseIssues: the JSON check runs before the ending check
detectResponseIssuesJsonFirst(text) ==
  IF LoopPatternTest(text)
  THEN [hasIssue |-> TRUE, reason |-> "Repetitive loop detected"]
  ELSE IF Includes(text, "{") /\ ~Includes(text, "}")
  THEN [hasIssue |-> TRUE, reason |-> "Incomplete JSON structure"]
  ELSE IF Len(text) > AbruptMinLength /\ ~EndsWithPunctuation(text)
  THEN [hasIssue |-> TRUE, reason |-> "Abrupt ending without punctuation"]
  ELSE IF Includes(text, "<think>") /\ ~Includes(text, "</think>")
  THEN [hasIssue |-> TRUE, reason |-> "Unclosed thinking tags"]
  ELSE NoIssue

detectResponseIssues(text) ==
  IF LoopPatternTest(text)
  THEN [hasIssue |-> TRUE, reason |-> "Repetitive loop detected"]
  ELSE IF Len(text) > AbruptMinLength /\ ~EndsWithPunctuation(text)
  THEN [hasIssue |-> TRUE, reason |-> "Abrupt ending without punctuation"]
  ELSE IF Includes(text, "{") /\ ~Includes(text, "}")
  THEN [hasIssue |-> TRUE, reason |-> "Incomplete JSON structure"]
  ELSE IF Includes(text, "<think>") /\ ~Includes(text, "</think>")
  THEN [hasIssue |-> TRUE, reason |-> "Unclosed thinking tags"]
  ELSE NoIssue

(***************************************************************************)
(* combinePartialResponses                                                 *)
(***************************************************************************)
\* words.slice(-i) for 1 <= i <= Len(words)
LastWords(words, i) == SubSeq(words, Len(words) - i + 1, Len(words))
\* words.slice(0, i)
FirstWords(words, i) == SubSeq(words, 1, i)
\* words.slice(i)
WordsFrom(words, i) == SubSeq(words, i + 1, Len(words))

\* mutant of OverlapOf: the first i that matches is the one kept
OverlapOfFirstHit(words1, words2) ==
  LET maxOverlap == Min2(MaxOverlapWords, Min2(Len(words1), Len(words2)))
      hits == {i \in 1..maxOverlap :
                 ToLowerCase(JoinSpace(LastWords(words1, i)))
                   = ToLowerCase(JoinSpace(FirstWords(words2, i)))}
  IN  IF hits = {} THEN 0 ELSE SetMin(hits)

\* the loop of lines 189-195: the last i that matches is the one kept
OverlapOf(words1, words2) ==
  LET maxOverlap == Min2(MaxOverlapWords, Min2(Len(words1), Len(words2)))
      hits == {i \in 1..maxOverlap :
                 ToLowerCase(JoinSpace(LastWords(words1, i)))
                   = ToLowerCase(JoinSpace(FirstWords(words2, i)))}
  IN  IF hits = {} THEN 0 ELSE SetMax(hits)

combinePartialResponses(first, second) ==
  LET firstTrimmed == Trim(first)
      secondTrimmed == Trim(second)
      words1 == SplitWhitespace(firstTrimmed)
      words2 == SplitWhitespace(secondTrimmed)
      overlap == OverlapOf(words1, words2)
  IN  IF overlap > 0
      THEN JoinSpace(words1 \o WordsFrom(words2, overlap))
      ELSE firstTrimmed \o "\n\n" \o secondTrimmed

(***************************************************************************)
(* createSimplifiedPrompt                                                  *)
(***************************************************************************)
\* [^"'\n]
IsQueryChar(c) == Len(c) = 1 /\ c \notin {"\"", "'", "\n"}
IsQuote(c) == c \in {"\"", "'"}

\* (?:Query|Question|User asks?): at i, case-insensitively: the index after
\* the colon, 0 if it does not match there
MarkerEnd(s, i) ==
  IF StartsAtNoCase(s, "Query:", i) THEN i + 6
  ELSE IF StartsAtNoCase(s, "Question:", i) THEN i + 9
  ELSE IF StartsAtNoCase(s, "User asks:", i) THEN i + 10
  ELSE IF StartsAtNoCase(s, "User ask:", i) THEN i + 9
  ELSE 0

\* \s*["']?([^"'\n]+) from p: \s* is greedy and gives characters back until
\* the group can start; the start of group 1, 0 if none
QueryStart(s, p) ==
  LET w == SkipSpace(s, p)
      startAt(k) ==
        IF IsQuote(CharAt(s, k)) /\ IsQueryChar(CharAt(s, k + 1)) THEN k + 1
        ELSE IF IsQueryChar(CharAt(s, k)) THEN k
        ELSE 0
      ks == {k \in p..w : startAt(k) > 0}
  IN  IF ks = {} THEN 0 ELSE startAt(SetMax(ks))

\* group 1 of the leftmost match of the query pattern, "" if no match
\* (a match never has an empty group 1)
QueryMatch(s) ==
  LET starts == {i \in 1..Len(s) :
                   MarkerEnd(s, i) > 0 /\ QueryStart(s, MarkerEnd(s, i)) > 0}
  IN  IF starts = {} THEN ""
      ELSE LET g == QueryStart(s, MarkerEnd(s, SetMin(starts)))
               e == SetMin({j \in g..Len(s) :
                              j = Len(s) \/ ~IsQueryChar(CharAt(s, j + 1))})
           IN  SubSeq(s, g, e)

\* mutant of createSimplifiedPrompt: the simplified prompt keeps the marker
createSimplifiedPromptKeepingMarker(originalPrompt) ==
  LET m == QueryMatch(originalPrompt)
      query == IF m # "" THEN m ELSE "Please extract relevant information"
  IN  "Query: " \o query
        \o "\n\nProvide a direct, simple answer with key facts only."
        \o "\nNo thinking, no analysis, just the facts."

createSimplifiedPrompt(originalPrompt) ==
  LET m == QueryMatch(originalPrompt)
      query == IF m # "" THEN m ELSE "Please extract relevant information"
  IN  "Extract information to answer: " \o query
        \o "\n\nProvide a direct, simple answer with key facts only."
        \o "\nNo thinking, no analysis, just the facts."

(***************************************************************************)
(* generateWithCompletion: the caller's inputs and what generateFn may do. *)
(***************************************************************************)
\* an optional field of ResponseCompletionOptions: <<>> when absent
Absent == <<>>
Given(v) == <<v>>
\* options.field || fallback, for a number and for a string
\* mutant of NumberOr: only an absent option takes the fallback (??)
NumberOrNullish(opt, fallback) == IF opt # Absent THEN opt[1] ELSE fallback

NumberOr(opt, fallback) == IF opt # Absent /\ opt[1] # 0 THEN opt[1] ELSE fallback
StringOr(opt, fallback) == IF opt # Absent /\ opt[1] # "" THEN opt[1] ELSE fallback

ShortPrompt == "Context: pets.\nQuery: \"what do cats eat\"\nAnswer as JSON."
LongPromptHead == "Question: why\n"
LongPrompt ==
  LongPromptHead
    \o Repeat("x", ShortPromptLength + LongPromptExtra - Len(LongPromptHead))
Prompts == {ShortPrompt, LongPrompt}
\* a prompt of exactly ShortPromptLength characters
BoundaryPrompt == Substring0(LongPrompt, ShortPromptLength)

\* texts generateFn resolves with
BlankTexts == {"", " \n"}
IncompleteText == "{\"a\": 1,"
RestText == "1, \"b\": 2}"
CompleteText == "Done."
\* complete answers of more than AbruptMinLength characters
LongJsonText == "{\"answer\": \"" \o Repeat("cats eat fish ", 7) \o "\"}"
LongArrayText == "[" \o Repeat("\"kibble\", ", 10) \o "\"fish\"]\n"
LongSentence == Repeat("cats eat fish ", 8) \o "daily.\n"

\* values generateFn rejects with: Error objects and a thrown string
InvalidJsonThrow == [isError |-> TRUE, message |-> "Invalid JSON response from model"]
RejectedThrow == [isError |-> TRUE, message |-> "Ollama API rejected response"]
DoneFalseThrow == [isError |-> TRUE, message |-> "stream ended with \"done\": false"]
TimeoutThrow == [isError |-> TRUE, message |-> "Request timeout"]
NetworkThrow == [isError |-> TRUE, message |-> "Network unreachable"]
StringThrow == [isError |-> FALSE, message |-> "timeout"]

\* a generateFn the caller passes: the texts it may resolve with, the values
\* it may reject with, and whether it may take longer than the timeout
GenerateFn(texts, throws, slow) == [texts |-> texts, throws |-> throws, slow |-> slow]
Truncating == GenerateFn({IncompleteText, RestText, CompleteText}, {}, FALSE)
TimingOut == GenerateFn({}, {TimeoutThrow}, FALSE)
Slow == GenerateFn({CompleteText, IncompleteText}, {}, TRUE)
Verbose ==
  GenerateFn({LongJsonText, LongArrayText, LongSentence, CompleteText}, {}, FALSE)
Rejecting ==
  GenerateFn({CompleteText}, {InvalidJsonThrow, RejectedThrow, DoneFalseThrow}, FALSE)
Failing ==
  GenerateFn(BlankTexts \cup {IncompleteText}, {NetworkThrow, StringThrow}, FALSE)
Flaky ==
  GenerateFn({IncompleteText, CompleteText}, {TimeoutThrow, DoneFalseThrow}, FALSE)
Erratic ==
  GenerateFn({"", IncompleteText}, {InvalidJsonThrow, TimeoutThrow, NetworkThrow}, TRUE)

MaxRetriesOptions == {Absent} \cup {Given(n) : n \in 0..MaxRetriesOption}
TimeoutOptions == {Absent, Given(0), Given(30000)}
ContinuationOptions == {Absent, Given("Go on.")}

CallArgs(p, m, t, c, g) ==
  [prompt |-> p, maxRetries |-> m, timeout |-> t, continuationPrompt |-> c,
   generateFn |-> g]

\* the top-level calls the model makes
TopLevelCalls ==
  {CallArgs(ShortPrompt, m, Absent, Absent, g) :
     m \in MaxRetriesOptions, g \in {Truncating, TimingOut, Verbose}}
  \cup {CallArgs(p, Absent, Absent, Absent, g) :
          p \in Prompts, g \in {Slow, Rejecting, Failing, Flaky}}
  \cup {CallArgs(p, Absent, Absent, Absent, TimingOut) :
          p \in {LongPrompt, BoundaryPrompt}}
  \cup {CallArgs(ShortPrompt, Given(2), t, c, Erratic) :
          t \in TimeoutOptions, c \in ContinuationOptions}

\* a thrown value with its identity: who created it, during which invocation
Thrown(isError, message, origin, call) ==
  [isError |-> isError, message |-> message, origin |-> origin, call |-> call]
NoThrown == Thrown(FALSE, "", "none", 0)
\* new Error('Response timeout'), line 44
TimeoutError(call) == Thrown(TRUE, "Response timeout", "timer", call)
\* new Error("Model returned empty response"), line 51
EmptyResponseError(call) == Thrown(TRUE, "Model returned empty response", "empty", call)

VARIABLES
  call,          \* the top-level call's arguments
  frames,        \* the stack of generateWithCompletion activations, innermost last
  signal,        \* the value or error a finished activation hands to its awaiter
  result,        \* the top-level promise
  timers,        \* timeout timers not yet fired, oldest first (equal durations)
  lateGens,      \* generateFn promises left unsettled by a race the timer won
  log,           \* one entry per generateFn invocation
  service,       \* the fields of the EmbeddingService singleton
  loads,         \* one entry per pipeline() load, in starting order
  callers,       \* one entry per init() call, in calling order
  client,        \* what the callers of the service did: destroy() and generateEmbedding()
  batch,         \* the activation of generateEmbeddings
  hook,          \* the state of the research hook and its abortControllerRef
  runs           \* one entry per performIntelligentResearch call

completionVars == <<call, frames, signal, result, timers, lateGens, log>>
embedVars == <<service, loads, callers, client, batch>>
hookVars == <<hook, runs>>
vars == <<call, frames, signal, result, timers, lateGens, log,
          service, loads, callers, client, batch, hook, runs>>

\* null
Null == 0
\* the field initializers of EmbeddingService.ts lines 18-21
NewService ==
  [model |-> Null, isInitialized |-> FALSE, isInitializing |-> FALSE,
   initializationPromise |-> Null]
NoClient == [destroys |-> 0, embedded |-> <<>>]
NoBatch == [pc |-> "idle"]
EmbedIdle ==
  /\ service = NewService
  /\ loads = <<>>
  /\ callers = <<>>
  /\ client = NoClient
  /\ batch = NoBatch
\* the useState and useRef initializers of the hook
NewHook ==
  [results |-> "", researchResult |-> <<>>, isGenerating |-> FALSE,
   isStreaming |-> FALSE, isIntelligentResearching |-> FALSE,
   abortControllerRef |-> Null]
HookIdle ==
  /\ hook = NewHook
  /\ runs = <<>>

maxRetries == NumberOr(call.maxRetries, MAX_RETRIES)
timeout == NumberOr(call.timeout, RESPONSE_TIMEOUT)
continuationPrompt == StringOr(call.continuationPrompt, CONTINUATION_PROMPT)

Frame(attempt, prompt, id) ==
  [attempt |-> attempt, prompt |-> prompt, pc |-> "race", call |-> id,
   text |-> "", caught |-> NoThrown, next |-> "", delay |-> 0]
LogEntry(attempt, prompt) ==
  [attempt |-> attempt, prompt |-> prompt, outcome |-> "pending",
   text |-> "", error |-> NoThrown, timer |-> timeout]

NoSignal == [kind |-> "none", text |-> "", error |-> NoThrown]
ValueSignal(t) == [kind |-> "value", text |-> t, error |-> NoThrown]
ErrorSignal(e) == [kind |-> "error", text |-> "", error |-> e]

Top == frames[Len(frames)]
Pop == SubSeq(frames, 1, Len(frames) - 1)
ReplaceTop(f) == [frames EXCEPT ![Len(frames)] = f]

(***************************************************************************)
(* generateWithCompletion, lines 29-108.  An activation runs from one      *)
(* await to the next in one step; it waits at                              *)
(*   "race"   line 48          Promise.race of generateFn and the timer    *)
(*   "cont"   line 62          the continuation's recursive call           *)
(*   "delay"  lines 83/91/100  the pause before a retry                    *)
(*   "retry"  lines 84/92/101  the retry's recursive call                  *)
(***************************************************************************)
\* mutant of CanRetry: the limit is off by one
CanRetryOffByOne(attempt) == attempt <= maxRetries

\* attempt < maxRetries, lines 57, 79, 90, 98
CanRetry(attempt) == attempt < maxRetries

\* mutant of IsBlank: the text is not trimmed before the test
IsBlankNoTrim(text) == text = ""

\* !text || text.trim().length === 0, line 50
IsBlank(text) == text = "" \/ Len(Trim(text)) = 0

\* mutant of ContinuationText: the partial response is left out
ContinuationTextWithoutPartial(prompt, text) ==
  prompt \o "\n\n" \o continuationPrompt

\* line 61
ContinuationText(prompt, text) ==
  prompt \o "\n\nPrevious partial response:\n" \o text \o "\n\n" \o continuationPrompt

\* mutant of ShorterPrompt: a prompt of exactly 500 characters is cut too
ShorterPromptFromLimit(prompt) ==
  IF Len(prompt) >= ShortPromptLength
  THEN Substring0(prompt, ShortPromptLength) \o "\n\nPlease provide a direct answer."
  ELSE prompt

\* line 99
ShorterPrompt(prompt) ==
  IF Len(prompt) > ShortPromptLength
  THEN Substring0(prompt, ShortPromptLength) \o "\n\nPlease provide a direct answer."
  ELSE prompt

\* mutant of IsTimeoutError: the thrown value is not tested to be an Error
IsTimeoutErrorOfAnyValue(e) == Includes(e.message, "timeout")

\* the three tests of the catch block, lines 77, 88, 96
IsInvalidJsonError(e) ==
  /\ e.isError
  /\ \/ Includes(e.message, "Invalid JSON response")
     \/ Includes(e.message, "Ollama API rejected response")
IsDoneFalseError(e) == e.isError /\ Includes(e.message, "done\": false")
IsTimeoutError(e) == e.isError /\ Includes(e.message, "timeout")

\* mutant of RetryPlan: the timeout branch is missing
RetryPlanWithoutTimeout(prompt, attempt, e) ==
  IF IsInvalidJsonError(e) /\ CanRetry(attempt)
  THEN [retry |-> TRUE, prompt |-> createSimplifiedPrompt(prompt),
        delay |-> InvalidJsonDelay]
  ELSE IF IsDoneFalseError(e) /\ CanRetry(attempt)
  THEN [retry |-> TRUE, prompt |-> prompt, delay |-> RetryDelay]
  ELSE [retry |-> FALSE, prompt |-> "", delay |-> 0]

\* mutant of RetryPlan: the done:false branch retries with the shortened prompt
RetryPlanDoneFalseShortens(prompt, attempt, e) ==
  IF IsInvalidJsonError(e) /\ CanRetry(attempt)
  THEN [retry |-> TRUE, prompt |-> createSimplifiedPrompt(prompt),
        delay |-> InvalidJsonDelay]
  ELSE IF (IsDoneFalseError(e) \/ IsTimeoutError(e)) /\ CanRetry(attempt)
  THEN [retry |-> TRUE, prompt |-> ShorterPrompt(prompt), delay |-> RetryDelay]
  ELSE [retry |-> FALSE, prompt |-> "", delay |-> 0]

NoRetry == [retry |-> FALSE, prompt |-> "", delay |-> 0]
\* the catch block, lines 70-106: the retry it makes, if any
RetryPlan(prompt, attempt, e) ==
  IF IsInvalidJsonError(e) /\ CanRetry(attempt)
  THEN [retry |-> TRUE, prompt |-> createSimplifiedPrompt(prompt),
        delay |-> InvalidJsonDelay]
  ELSE IF IsDoneFalseError(e) /\ CanRetry(attempt)
  THEN [retry |-> TRUE, prompt |-> prompt, delay |-> RetryDelay]
  ELSE IF IsTimeoutError(e) /\ CanRetry(attempt)
  THEN [retry |-> TRUE, prompt |-> ShorterPrompt(prompt), delay |-> RetryDelay]
  ELSE NoRetry

\* mutant of Racing: a timer of an earlier invocation rejects the race awaited now
RacingAny(id) == frames # <<>> /\ frames[Len(frames)].pc = "race"

\* the race of invocation id is the one the innermost activation awaits
Racing(id) == frames # <<>> /\ Top.pc = "race" /\ Top.call = id

\* lines 40-48 of a new activation pushed on stack fs: the timer is started
\* and generateFn is invoked
Invoke(fs, attempt, prompt, lg, tm) ==
  /\ frames' = Append(fs, Frame(attempt, prompt, Len(lg) + 1))
  /\ log' = Append(lg, LogEntry(attempt, prompt))
  /\ timers' = Append(tm, Len(lg) + 1)
  /\ signal' = NoSignal

\* mutant of ThrowInTry: the retry is called without awaiting the pause
ThrowInTryNoDelay(e, lg, tm) ==
  LET plan == RetryPlan(Top.prompt, Top.attempt, e)
  IN  IF plan.retry
      THEN Invoke(ReplaceTop([Top EXCEPT !.pc = "retry", !.caught = e,
                                         !.next = plan.prompt,
                                         !.delay = plan.delay]),
                  Top.attempt + 1, plan.prompt, lg, tm)
      ELSE /\ frames' = Pop
           /\ signal' = ErrorSignal(e)
           /\ log' = lg
           /\ timers' = tm

\* an error reaches the catch block of the innermost activation
ThrowInTry(e, lg, tm) ==
  LET plan == RetryPlan(Top.prompt, Top.attempt, e)
  IN  /\ IF plan.retry
         THEN /\ frames' = ReplaceTop([Top EXCEPT !.pc = "delay",
                                                  !.caught = e,
                                                  !.next = plan.prompt,
                                                  !.delay = plan.delay])
              /\ signal' = NoSignal
         ELSE /\ frames' = Pop
              /\ signal' = ErrorSignal(e)
      /\ log' = lg
      /\ timers' = tm

\* lines 50-68: the race was won by generateFn's text
TextInTry(text, lg, tm) ==
  IF IsBlank(text)
  THEN ThrowInTry(EmptyResponseError(Top.call), lg, tm)
  ELSE IF detectResponseIssues(text).hasIssue /\ CanRetry(Top.attempt)
  THEN Invoke(ReplaceTop([Top EXCEPT !.pc = "cont", !.text = text]),
              Top.attempt + 1, ContinuationText(Top.prompt, text), lg, tm)
  ELSE /\ frames' = Pop
       /\ signal' = ValueSignal(text)
       /\ log' = lg
       /\ timers' = tm

Settled(id, outcome, text, e) ==
  [log EXCEPT ![id].outcome = outcome, ![id].text = text, ![id].error = e]

\* the caller calls generateWithCompletion(generateFn, prompt, options)
Call ==
  /\ log = <<>>
  /\ Invoke(<<>>, 1, call.prompt, log, timers)
  /\ UNCHANGED <<embedVars, hookVars, call, result, lateGens>>

\* generateFn's promise resolves before the timer fires
GenResolves ==
  /\ frames # <<>> /\ Top.pc = "race" /\ signal.kind = "none"
  /\ \E text \in call.generateFn.texts :
       TextInTry(text, Settled(Top.call, "resolved", text, NoThrown), timers)
  /\ UNCHANGED <<embedVars, hookVars, call, result, lateGens>>

\* generateFn's promise rejects before the timer fires
GenRejects ==
  /\ frames # <<>> /\ Top.pc = "race" /\ signal.kind = "none"
  /\ \E t \in call.generateFn.throws :
       LET e == Thrown(t.isError, t.message, "gen", Top.call)
       IN  ThrowInTry(e, Settled(Top.call, "rejected", "", e), timers)
  /\ UNCHANGED <<embedVars, hookVars, call, result, lateGens>>

\* the oldest timeout timer fires: it rejects its race if that race is still
\* awaited, and is ignored otherwise
TimerFires ==
  /\ timers # <<>> /\ signal.kind = "none"
  /\ IF Racing(Head(timers))
     THEN /\ call.generateFn.slow
          /\ ThrowInTry(TimeoutError(Top.call),
                        Settled(Top.call, "timedOut", "", TimeoutError(Top.call)),
                        Tail(timers))
          /\ lateGens' = lateGens \cup {Top.call}
     ELSE /\ timers' = Tail(timers)
          /\ UNCHANGED <<frames, signal, log, lateGens>>
  /\ UNCHANGED <<embedVars, hookVars, call, result>>

\* a generateFn promise settles after its race was lost to the timer
LateGenSettles ==
  /\ signal.kind = "none"
  /\ \E id \in lateGens : lateGens' = lateGens \ {id}
  /\ UNCHANGED <<embedVars, hookVars, call, frames, signal, result, timers, log>>

\* lines 83/91/100 then 84/92/101: the pause is over, the retry is called
DelayElapses ==
  /\ frames # <<>> /\ Top.pc = "delay" /\ signal.kind = "none"
  /\ Invoke(ReplaceTop([Top EXCEPT !.pc = "retry"]),
            Top.attempt + 1, Top.next, log, timers)
  /\ UNCHANGED <<embedVars, hookVars, call, result, lateGens>>

\* mutant of ResumeContinuation: a failed continuation leaves the partial text
\* as the activation's value
ResumeContinuationKeepsPartial ==
  /\ frames # <<>> /\ Top.pc = "cont" /\ signal.kind # "none"
  /\ frames' = Pop
  /\ signal' = ValueSignal(IF signal.kind = "value"
                           THEN combinePartialResponses(Top.text, signal.text)
                           ELSE Top.text)
  /\ UNCHANGED <<embedVars, hookVars, call, result, lateGens, log, timers>>

\* lines 62-65: the continuation returned or threw (inside the try block)
ContinuationSettled ==
  frames # <<>> /\ Top.pc = "cont" /\ signal.kind # "none"

ResumeContinuation ==
  /\ ContinuationSettled
  /\ IF signal.kind = "value"
     THEN /\ frames' = Pop
          /\ signal' = ValueSignal(combinePartialResponses(Top.text, signal.text))
          /\ UNCHANGED <<log, timers>>
     ELSE ThrowInTry(signal.error, log, timers)
  /\ UNCHANGED <<embedVars, hookVars, call, result, lateGens>>

\* mutant of ResumeRetry: a failed retry rethrows the error caught before it
ResumeRetryRethrowsCaught ==
  /\ frames # <<>> /\ Top.pc = "retry" /\ signal.kind # "none"
  /\ frames' = Pop
  /\ signal' = IF signal.kind = "error" THEN ErrorSignal(Top.caught) ELSE signal
  /\ UNCHANGED <<embedVars, hookVars, call, result, timers, lateGens, log>>

\* lines 84/92/101: return await of the retry, inside the catch block
ResumeRetry ==
  /\ frames # <<>> /\ Top.pc = "retry" /\ signal.kind # "none"
  /\ frames' = Pop
  /\ UNCHANGED <<embedVars, hookVars, call, signal, result, timers, lateGens, log>>

\* the outermost activation settles the promise the caller holds
Finish ==
  /\ frames = <<>> /\ signal.kind # "none"
  /\ result' = signal
  /\ signal' = NoSignal
  /\ UNCHANGED <<embedVars, hookVars, call, frames, timers, lateGens, log>>

Init ==
  /\ call \in TopLevelCalls
  /\ frames = <<>>
  /\ signal = NoSignal
  /\ result = NoSignal
  /\ timers = <<>>
  /\ lateGens = {}
  /\ log = <<>>
  /\ EmbedIdle
  /\ HookIdle

Next ==
  \/ Call
  \/ GenResolves
  \/ GenRejects
  \/ TimerFires
  \/ LateGenSettles
  \/ DelayElapses
  \/ ResumeContinuation
  \/ ResumeRetry
  \/ Finish

Spec == Init /\ [][Next]_vars

(***************************************************************************)
(* Properties of generateWithCompletion.                                   *)
(***************************************************************************)
Calls == 1..Len(log)
Finished == result.kind # "none"
MessageHasRetryMarker(m) ==
  \/ Includes(m, "Invalid JSON response")
  \/ Includes(m, "Ollama API rejected response")
  \/ Includes(m, "done\": false")
  \/ Includes(m, "timeout")
Retryable(e) == e.isError /\ MessageHasRetryMarker(e.message)
Failed(i) == log[i].outcome \in {"rejected", "timedOut"}

\* C1: one top-level call invokes generateFn at most maxRetries times, and
\* the outcome of an invocation made at attempt >= maxRetries is the last
\* invocation and what the caller gets.
C1_AtMostMaxRetriesCalls ==
  /\ Len(log) <= maxRetries
  /\ \A i \in Calls :
       (log[i].attempt >= maxRetries /\ log[i].outcome # "pending")
         => /\ i = Len(log)
            /\ result.kind = "value" => result.text = log[i].text
            /\ result.kind = "error" => result.error.call = i

\* C2: when every invocation of generateFn rejects with an Error whose
\* message contains "timeout", generateFn is invoked at attempts 1, 2, ...,
\* never more than maxRetries times, and the call ends after exactly
\* maxRetries invocations by rejecting with a timeout error that generateFn
\* threw.
AlwaysRejectsWithTimeout ==
  \A i \in Calls :
    \/ i = Len(log) /\ log[i].outcome = "pending"
    \/ /\ log[i].outcome = "rejected"
       /\ log[i].error.isError
       /\ Includes(log[i].error.message, "timeout")
C2_TimeoutRetriesExactlyMaxRetries ==
  AlwaysRejectsWithTimeout
    => /\ Len(log) <= maxRetries
       /\ \A i \in Calls : log[i].attempt = i
       /\ result.kind # "value"
       /\ result.kind = "error"
            => /\ Len(log) = maxRetries
               /\ result.error.origin = "gen"
               /\ result.error.isError
               /\ Includes(result.error.message, "timeout")
C2_Witness ==
  /\ AlwaysRejectsWithTimeout
  /\ result.kind = "error"
  /\ maxRetries = 3
  /\ Len(log) = 3

\* C3: an activation whose text has an issue at attempt < maxRetries calls
\* the continuation with attempt + 1 and the prompt
\* prompt + "\n\nPrevious partial response:\n" + text + "\n\n" + continuationPrompt,
\* and returns combinePartialResponses(text, continuation result); when
\* every invocation resolved, the final text is the right-nested merge
\* combine(t1, combine(t2, ... tk)) of the texts in invocation order.
RECURSIVE NestedMerge(_)
NestedMerge(texts) ==
  IF Len(texts) = 1 THEN texts[1]
  ELSE combinePartialResponses(texts[1], NestedMerge(Tail(texts)))
AllResolved == \A i \in Calls : log[i].outcome = "resolved"
AwaitsContinuation(k) == k < Len(frames) /\ frames[k].pc = "cont"
C3_ContinuationPromptAndMerge ==
  /\ \A k \in 1..Len(frames) :
       AwaitsContinuation(k)
         => /\ frames[k].text = log[frames[k].call].text
            /\ detectResponseIssues(frames[k].text).hasIssue
            /\ frames[k].attempt < maxRetries
            /\ frames[k + 1].attempt = frames[k].attempt + 1
            /\ frames[k + 1].prompt =
                 frames[k].prompt \o "\n\nPrevious partial response:\n"
                   \o frames[k].text \o "\n\n"
                   \o (IF call.continuationPrompt = Absent
                       THEN "Please complete your previous response starting from where you left off."
                       ELSE call.continuationPrompt[1])
            /\ log[frames[k + 1].call].prompt = frames[k + 1].prompt
  /\ (result.kind = "value" /\ AllResolved)
       => result.text = NestedMerge([i \in Calls |-> log[i].text])
C3_Witness ==
  /\ result.kind = "value"
  /\ AllResolved
  /\ Len(log) = 3
  /\ log[3].text = RestText
  /\ result.text = "{\"a\": 1, \"b\": 2}"

\* C4: when the race of an activation is won by a non-blank text that has
\* no issue, or that has one at attempt >= maxRetries, the activation
\* returns exactly that text and invokes generateFn no further; so a first
\* text of that kind is the result of the call after exactly one invocation.
ReturnsTextAsIs(f) ==
  LET t == log'[f.call].text
  IN  (/\ log[f.call].outcome = "pending"
       /\ log'[f.call].outcome = "resolved"
       /\ Len(Trim(t)) > 0
       /\ (~detectResponseIssues(t).hasIssue \/ f.attempt >= maxRetries))
        => /\ Len(log') = Len(log)
           /\ frames' = SubSeq(frames, 1, Len(frames) - 1)
           /\ signal' = [kind |-> "value", text |-> t, error |-> NoThrown]
FirstTextIsFinal ==
  (/\ Len(log) >= 1
   /\ log[1].outcome = "resolved"
   /\ Len(Trim(log[1].text)) > 0
   /\ (~detectResponseIssues(log[1].text).hasIssue \/ maxRetries <= 1))
    => /\ Len(log) = 1
       /\ result.kind # "error"
       /\ result.kind = "value" => result.text = log[1].text
C4_ExhaustedOrCleanTextReturnedAsIs ==
  /\ []FirstTextIsFinal
  /\ [][frames # <<>> => ReturnsTextAsIs(frames[Len(frames)])]_vars
C4_Witness ==
  /\ maxRetries = 1
  /\ Len(log) = 1
  /\ log[1].text = IncompleteText
  /\ result.kind = "value"
  /\ result.text = IncompleteText

\* C5: every activation has 1 <= attempt <= maxRetries, an activation's
\* attempt is one more than its caller's, and at most maxRetries
\* activations are nested.
C5_AttemptWithinMaxRetries ==
  /\ Len(frames) <= maxRetries
  /\ \A k \in 1..Len(frames) :
       /\ frames[k].attempt >= 1
       /\ frames[k].attempt <= maxRetries
       /\ k > 1 => frames[k].attempt = frames[k - 1].attempt + 1
  /\ \A i \in Calls : log[i].attempt >= 1 /\ log[i].attempt <= maxRetries
C5_Witness ==
  /\ maxRetries = 3
  /\ Len(frames) = 3
  /\ frames[3].attempt = 3
  /\ frames[1].pc = "cont"
  /\ frames[2].pc = "retry"

\* C6: a text that is empty or only whitespace makes its activation fail
\* with the empty-response error; no invocation of generateFn follows and
\* the top-level call rejects with that error.
EmptyErrorOf(i) ==
  [isError |-> TRUE, message |-> "Model returned empty response",
   origin |-> "empty", call |-> i]
C6_EmptyResponseIsFatal ==
  \A i \in Calls :
    (log[i].outcome = "resolved" /\ Len(Trim(log[i].text)) = 0)
      => /\ i = Len(log)
         /\ \A k \in 1..Len(frames) : frames[k].call # i /\ frames[k].pc # "delay"
         /\ signal.kind # "value" /\ result.kind # "value"
         /\ signal.kind = "error" => signal.error = EmptyErrorOf(i)
         /\ result.kind = "error" => result.error = EmptyErrorOf(i)
         /\ (frames = <<>> /\ signal.kind = "none") => result.kind = "error"
C6_Witness ==
  /\ Len(log) = 2
  /\ log[2].text = " \n"
  /\ log[2].attempt < maxRetries
  /\ result.kind = "error"
  /\ result.error.origin = "empty"

\* C7 as claimed: when every attempt fails with a retryable error, the
\* call rejects with the error object of the first failing attempt.
AllFailRetryably == \A i \in Calls : Failed(i) /\ Retryable(log[i].error)
C7_RejectsWithFirstError ==
  (Finished /\ AllFailRetryably)
    => result.kind = "error" /\ result.error = log[1].error
\* C7 as amended: when every attempt fails with a retryable error, exactly
\* maxRetries attempts are made and the call rejects with the error object
\* of the last one (made at attempt = maxRetries), unmodified and unwrapped.
C7_RejectsWithLastError ==
  (Finished /\ AllFailRetryably)
    => /\ result.kind = "error"
       /\ Len(log) = maxRetries
       /\ log[Len(log)].attempt = maxRetries
       /\ result.error = log[Len(log)].error
C7_Witness ==
  /\ Finished
  /\ AllFailRetryably
  /\ Len(log) = 3
  /\ log[3].outcome = "rejected"
  /\ result.error = log[3].error
  /\ log[1].error.message # log[3].error.message

\* C8: a rejection with a value that is no Error, or with an Error whose
\* message holds none of the four markers, is not retried: its activation
\* pauses for no retry, no invocation of generateFn follows, and the call
\* rejects with that very value, also when attempt < maxRetries.
NotRetryable(e) == ~e.isError \/ ~MessageHasRetryMarker(e.message)
C8_OtherErrorsPropagateUnchanged ==
  \A i \in Calls :
    (log[i].outcome = "rejected" /\ NotRetryable(log[i].error))
      => /\ i = Len(log)
         /\ \A k \in 1..Len(frames) : frames[k].call # i /\ frames[k].pc # "delay"
         /\ signal.kind # "value" /\ result.kind # "value"
         /\ signal.kind = "error" => signal.error = log[i].error
         /\ result.kind = "error" => result.error = log[i].error
         /\ (frames = <<>> /\ signal.kind = "none") => result.kind = "error"
C8_Witness ==
  /\ result.kind = "error"
  /\ ~result.error.isError
  /\ result.error.message = "timeout"
  /\ log[Len(log)].attempt < maxRetries
  /\ Len(log) = 2

\* C9: the race of an invocation is decided by the first of generateFn's
\* promise and the timer to settle: a timer that fires first fails the
\* attempt with the timeout error, which takes the timeout branch of the
\* catch block; the loser is not cancelled, and its later settlement changes
\* neither the activations nor the outcome of the call.
TimerErrorOf(i) ==
  [isError |-> TRUE, message |-> "Response timeout", origin |-> "timer", call |-> i]
TimedOutTakesTimeoutBranch ==
  \A k \in 1..Len(frames) :
    log[frames[k].call].outcome = "timedOut"
      => /\ frames[k].pc \in {"delay", "retry"}
         /\ frames[k].caught = TimerErrorOf(frames[k].call)
         /\ frames[k].delay = 1000
         /\ frames[k].next =
              IF Len(frames[k].prompt) > 500
              THEN SubSeq(frames[k].prompt, 1, 500) \o "\n\nPlease provide a direct answer."
              ELSE frames[k].prompt
FirstSettlementDecides ==
  \A i \in Calls :
    /\ log[i].outcome = "timedOut"
         => /\ log[i].error = TimerErrorOf(i)
            /\ \A j \in 1..Len(timers) : timers[j] # i
    /\ log[i].outcome \in {"resolved", "rejected"} => i \notin lateGens
    /\ log[i].outcome = "pending" => \E j \in 1..Len(timers) : timers[j] = i
LoserNotCancelled ==
  \A i \in Calls :
    log[i].outcome = "pending"
      => /\ log'[i].outcome \in {"resolved", "rejected"}
              => \E j \in 1..Len(timers') : timers'[j] = i
         /\ log'[i].outcome = "timedOut" => i \in lateGens'
LateTimerIgnored ==
  (/\ timers # <<>>
   /\ timers' = Tail(timers)
   /\ ~(/\ frames # <<>>
        /\ frames[Len(frames)].pc = "race"
        /\ frames[Len(frames)].call = Head(timers)))
    => UNCHANGED <<frames, signal, result, log, lateGens>>
LateGenIgnored ==
  (lateGens' # lateGens /\ lateGens' \subseteq lateGens)
    => UNCHANGED <<frames, signal, result, log, timers>>
ResultIsFinal == Finished => result' = result
C9_FirstSettlementWins ==
  /\ [](TimedOutTakesTimeoutBranch /\ FirstSettlementDecides)
  /\ [][LoserNotCancelled /\ LateTimerIgnored /\ LateGenIgnored /\ ResultIsFinal]_vars
C9_Witness ==
  /\ Finished
  /\ log[Len(log)].outcome = "resolved"
  /\ \E i \in Calls : log[i].outcome = "timedOut"
  /\ timers = <<>>
  /\ lateGens = {}

\* C10: attempts are sequential: at most one race is pending, it is the
\* race the innermost activation awaits, and generateFn is invoked anew only
\* when no earlier race is pending and, for a retry, after the activation
\* waited out its pause.
OneRaceAtATime ==
  /\ \A i \in Calls :
       log[i].outcome = "pending"
         => /\ i = Len(log)
            /\ frames # <<>>
            /\ frames[Len(frames)].pc = "race"
            /\ frames[Len(frames)].call = i
  /\ \A k \in 1..(Len(frames) - 1) : frames[k].pc \in {"cont", "retry"}
InvokedAfterSettlement ==
  Len(log') > Len(log)
    => /\ Len(log') = Len(log) + 1
       /\ \A i \in Calls : log'[i].outcome # "pending"
RetryAfterDelay ==
  \A k \in 1..Len(frames') :
    (frames'[k].pc = "retry" /\ (k > Len(frames) \/ frames[k].pc # "retry"))
      => k <= Len(frames) /\ frames[k].pc = "delay"
C10_AttemptsAreSequential ==
  /\ []OneRaceAtATime
  /\ [][InvokedAfterSettlement /\ RetryAfterDelay]_vars
C10_Witness ==
  /\ Len(log) >= 4
  /\ log[Len(log)].outcome = "pending"
  /\ \E k \in 1..Len(frames) : frames[k].pc = "retry" /\ frames[k].delay = 1000

\* C11: an activation that caught an Error whose message holds
\* 'done": false' and no invalid-JSON marker, at attempt < maxRetries,
\* pauses 1000 ms and then calls the retry with attempt + 1 and its own
\* prompt, character for character; the rejection itself invokes nothing.
CaughtDoneFalse(f) ==
  /\ f.pc \in {"delay", "retry"}
  /\ f.caught.isError
  /\ Includes(f.caught.message, "done\": false")
  /\ ~Includes(f.caught.message, "Invalid JSON response")
  /\ ~Includes(f.caught.message, "Ollama API rejected response")
DoneFalseRetriesSamePrompt ==
  \A k \in 1..Len(frames) :
    CaughtDoneFalse(frames[k])
      => /\ frames[k].attempt < maxRetries
         /\ frames[k].delay = 1000
         /\ frames[k].next = frames[k].prompt
         /\ (frames[k].pc = "retry" /\ k < Len(frames))
              => /\ frames[k + 1].attempt = frames[k].attempt + 1
                 /\ frames[k + 1].prompt = frames[k].prompt
                 /\ log[frames[k + 1].call].prompt = frames[k].prompt
                 /\ log[frames[k + 1].call].attempt = frames[k].attempt + 1
DoneFalseRejectionPauses ==
  \A i \in Calls :
    (/\ log[i].outcome = "pending"
     /\ log'[i].outcome = "rejected"
     /\ Includes(log'[i].error.message, "done\": false")
     /\ log[i].attempt < maxRetries)
      => /\ Len(log') = Len(log)
         /\ frames'[Len(frames')].call = i
         /\ frames'[Len(frames')].pc = "delay"
C11_DoneFalseRetriesSamePrompt ==
  /\ []DoneFalseRetriesSamePrompt
  /\ [][DoneFalseRejectionPauses]_vars
C11_Witness ==
  /\ Len(frames) = 2
  /\ CaughtDoneFalse(frames[1])
  /\ frames[1].pc = "retry"
  /\ frames[1].prompt = LongPrompt
  /\ frames[2].prompt = LongPrompt
  /\ frames[2].attempt = 2
  /\ log[1].outcome = "rejected"

\* C12: an activation that caught a timeout error at attempt < maxRetries
\* retries with the first 500 characters of its prompt followed by
\* "\n\nPlease provide a direct answer." when the prompt is longer than 500
\* characters, and with the identical prompt otherwise.
CaughtTimeout(f) ==
  /\ f.pc \in {"delay", "retry"}
  /\ f.caught.isError
  /\ Includes(f.caught.message, "timeout")
  /\ ~Includes(f.caught.message, "done\": false")
  /\ ~Includes(f.caught.message, "Invalid JSON response")
  /\ ~Includes(f.caught.message, "Ollama API rejected response")
ExpectedTimeoutRetryPrompt(prompt) ==
  IF Len(prompt) > 500
  THEN SubSeq(prompt, 1, 500) \o "\n\nPlease provide a direct answer."
  ELSE prompt
C12_TimeoutRetryPrompt ==
  \A k \in 1..Len(frames) :
    CaughtTimeout(frames[k])
      => /\ frames[k].attempt < maxRetries
         /\ frames[k].next = ExpectedTimeoutRetryPrompt(frames[k].prompt)
         /\ (frames[k].pc = "retry" /\ k < Len(frames))
              => /\ frames[k + 1].prompt = ExpectedTimeoutRetryPrompt(frames[k].prompt)
                 /\ log[frames[k + 1].call].prompt = frames[k + 1].prompt
                 /\ frames[k + 1].attempt = frames[k].attempt + 1
C12_Witness ==
  /\ Len(frames) = 3
  /\ CaughtTimeout(frames[1]) /\ CaughtTimeout(frames[2])
  /\ Len(frames[1].prompt) = 501
  /\ Len(frames[2].prompt) = 533
  /\ frames[3].prompt = frames[2].prompt
C12_BoundaryWitness ==
  /\ Len(frames) = 2
  /\ CaughtTimeout(frames[1])
  /\ Len(frames[1].prompt) = 500
  /\ frames[2].prompt = frames[1].prompt

\* C13: when generateFn always fails with a timeout error and the initial
\* prompt is longer than 500 characters, the prompt of every retry is
\* strictly shorter than the prompt of the attempt before it.
C13_PromptsStrictlyShorter ==
  (AlwaysRejectsWithTimeout /\ Len(log) >= 1 /\ Len(call.prompt) > 500)
    => \A i \in 2..Len(log) : Len(log[i].prompt) < Len(log[i - 1].prompt)

(***************************************************************************)
(* Calls of the text functions: detectResponseIssues and                   *)
(* combinePartialResponses applied to texts drawn from bounded sets.        *)
(* call holds the arguments, result what the function returned.            *)
(***************************************************************************)
DetectExtra == 1
MaxRepeats == 7
CombineExtra == 1

Returned(v) == [kind |-> "returned", value |-> v]

\* texts assembled from parts that decide each of the four conditions
\* n characters of filler words, the last one a space
Filler(n) ==
  IF n = 0 THEN "" ELSE Substring0(Repeat("ab cd ", n), n - 1) \o " "
FillerLengths == {0} \cup {AbruptMinLength - 1 + k : k \in 0..DetectExtra}
LoopParts == {"", "go go go go go go "}
BraceParts == {"", "{ ", "{ } ", "} "}
ThinkParts == {"", "<think> ", "<think> </think> ", "</think> "}
EndParts == {"x", ".", "!", "?", ". ", "x\n"}
PartsText(p) == Filler(p.fill) \o p.loop \o p.braces \o p.think \o p.end
PartsShapes ==
  [family : {"parts"}, fill : FillerLengths, loop : LoopParts,
   braces : BraceParts, think : ThinkParts, end : EndParts]

\* texts holding one run of a repeated token
RunWords == {"go", "a-b", "no."}
RunSeparators == {" ", "\n\t"}
RunTails == {"", "gone", "end"}
\* the n-th copy of the token, every second one in upper case when mixed
RunToken(word, mixed, n) ==
  IF mixed /\ n % 2 = 0 THEN (IF word = "go" THEN "GO"
                               ELSE IF word = "a-b" THEN "A-B" ELSE "NO.")
  ELSE word
RECURSIVE RunFrom(_, _, _, _, _)
RunFrom(word, mixed, sep, n, count) ==
  IF n > count THEN ""
  ELSE RunToken(word, mixed, n) \o sep \o RunFrom(word, mixed, sep, n + 1, count)
RunText(r) ==
  "so " \o RunFrom(r.word, r.mixed, r.sep, 1, r.count) \o r.tail
RunShapes ==
  [family : {"run"}, word : RunWords, mixed : BOOLEAN, sep : RunSeparators,
   count : 0..MaxRepeats, tail : RunTails]

DetectCalls ==
  {[fn |-> "detectResponseIssues", text |-> PartsText(p), second |-> "", shape |-> p] :
     p \in PartsShapes}
  \cup {[fn |-> "detectResponseIssues", text |-> RunText(r), second |-> "", shape |-> r] :
          r \in RunShapes}

\* partial responses: first ends with i copies of a token, second starts with j
MaxCopies == MaxOverlapWords + CombineExtra
RECURSIVE Copies(_, _)
Copies(w, n) == IF n <= 0 THEN <<>> ELSE <<w>> \o Copies(w, n - 1)
RECURSIVE JoinWith(_, _)
JoinWith(words, sep) ==
  IF Len(words) = 0 THEN ""
  ELSE IF Len(words) = 1 THEN words[1]
  ELSE words[1] \o sep \o JoinWith(Tail(words), sep)
Padded(words, pad) ==
  IF pad THEN " " \o JoinWith(words, "  ") \o "\n" ELSE JoinWith(words, " ")
FirstText(c) == Padded(c.pre \o Copies("a", c.i), c.pad)
SecondText(c) == Padded(Copies(IF c.upper THEN "A" ELSE "a", c.j) \o c.post, c.pad)
CombineShapes ==
  [family : {"overlap"}, pre : {<<>>, <<"x">>}, post : {<<>>, <<"y">>},
   i : 0..MaxCopies, j : 0..MaxCopies, upper : BOOLEAN, pad : BOOLEAN]
CombineCalls ==
  {[fn |-> "combinePartialResponses", text |-> FirstText(c),
    second |-> SecondText(c), shape |-> c] : c \in CombineShapes}

TextCalls == DetectCalls \cup CombineCalls

DetectResponseIssues ==
  /\ call.fn = "detectResponseIssues"
  /\ result.kind = "none"
  /\ result' = Returned(detectResponseIssues(call.text))
  /\ UNCHANGED <<embedVars, hookVars, call, frames, signal, timers, lateGens, log>>

CombinePartialResponses ==
  /\ call.fn = "combinePartialResponses"
  /\ result.kind = "none"
  /\ result' = Returned(combinePartialResponses(call.text, call.second))
  /\ UNCHANGED <<embedVars, hookVars, call, frames, signal, timers, lateGens, log>>

TextInit ==
  /\ call \in TextCalls
  /\ frames = <<>>
  /\ signal = NoSignal
  /\ result = NoSignal
  /\ timers = <<>>
  /\ lateGens = {}
  /\ log = <<>>
  /\ EmbedIdle
  /\ HookIdle

TextNext ==
  \/ DetectResponseIssues
  \/ CombinePartialResponses

TextSpec == TextInit /\ [][TextNext]_vars

DetectReturned(family) ==
  /\ call.fn = "detectResponseIssues"
  /\ call.shape.family = family
  /\ result.kind = "returned"

\* C14: detectResponseIssues returns the reason of the first condition that
\* holds, in the order repetitive loop, abrupt ending (length > 100 and
\* trimmed text not ending in '.', '!' or '?'), incomplete JSON ('{' and no
\* '}'), unclosed thinking tag; hasIssue is false exactly when none holds.
PartsLoop == call.shape.loop # ""
PartsAbrupt ==
  /\ Len(call.text) > 100
  /\ SubSeq(call.shape.end, 1, 1) \notin {".", "!", "?"}
PartsIncompleteJson == call.shape.braces = "{ "
PartsUnclosedThink == call.shape.think = "<think> "
C14_FirstMatchingIssue ==
  DetectReturned("parts") =>
    /\ result.value.reason =
         (IF PartsLoop THEN "Repetitive loop detected"
          ELSE IF PartsAbrupt THEN "Abrupt ending without punctuation"
          ELSE IF PartsIncompleteJson THEN "Incomplete JSON structure"
          ELSE IF PartsUnclosedThink THEN "Unclosed thinking tags"
          ELSE "")
    /\ result.value.hasIssue =
         (PartsLoop \/ PartsAbrupt \/ PartsIncompleteJson \/ PartsUnclosedThink)
C14_Witness ==
  /\ DetectReturned("parts")
  /\ ~PartsLoop
  /\ Len(call.text) > 100
  /\ PartsIncompleteJson
  /\ call.shape.end = "x"
  /\ result.value = [hasIssue |-> TRUE, reason |-> "Abrupt ending without punctuation"]

\* C15: detectResponseIssues reports the repetitive loop if and only if some
\* whitespace-separated token occurs 6 or more times in a row, compared
\* case-insensitively.
RECURSIVE LongestRun(_, _, _)
\* the longest run of equal consecutive tokens in words[k..], the run that
\* ends at words[k - 1] having length cur
LongestRun(words, k, cur) ==
  IF k > Len(words) THEN cur
  ELSE LET len == IF k > 1 /\ ToLowerCase(words[k]) = ToLowerCase(words[k - 1])
                  THEN cur + 1 ELSE 1
           rest == LongestRun(words, k + 1, len)
       IN  IF cur > rest THEN cur ELSE rest
TokenRepeats(text) == LongestRun(SplitRuns(text), 1, 0)
C15_LoopIffSixRepeats ==
  DetectReturned("run") =>
    ((result.value.reason = "Repetitive loop detected")
       <=> (TokenRepeats(call.text) >= 6))

\* C16: combinePartialResponses(first, second) is the reference merge: with
\* A and B the whitespace-split tokens of the trimmed inputs and N the
\* largest n in 1..min(10, |A|, |B|) whose last n tokens of A equal the first
\* n tokens of B case-insensitively, A followed by B from index N joined by
\* single spaces, and trimmed first + "\n\n" + trimmed second without such N.
ReferenceMerge(first, second) ==
  LET A == SplitWhitespace(Trim(first))
      B == SplitWhitespace(Trim(second))
      cap == SetMin({10, Len(A), Len(B)})
      Ns == {n \in 1..cap :
               \A k \in 1..n :
                 ToLowerCase(A[Len(A) - n + k]) = ToLowerCase(B[k])}
      N == CHOOSE n \in Ns : \A m \in Ns : m <= n
  IN  IF Ns # {}
      THEN JoinSpace(A \o [k \in 1..(Len(B) - N) |-> B[N + k]])
      ELSE Trim(first) \o "\n\n" \o Trim(second)
CombineReturned ==
  /\ call.fn = "combinePartialResponses"
  /\ result.kind = "returned"
C16_CombineIsReferenceMerge ==
  CombineReturned => result.value = ReferenceMerge(call.text, call.second)
C16_Witness ==
  /\ CombineReturned
  /\ call.shape.pre = <<"x">> /\ call.shape.post = <<"y">>
  /\ call.shape.i = 3 /\ call.shape.j = 2
  /\ call.shape.upper /\ call.shape.pad
  /\ result.value = "x a a a y"
C16_CapWitness ==
  /\ CombineReturned
  /\ call.shape.pre = <<>> /\ call.shape.post = <<>>
  /\ call.shape.i = 11 /\ call.shape.j = 11
  /\ result.value = JoinSpace(Copies("a", 12))

(***************************************************************************)
(* Regular expressions of the JSON repair functions.  A pattern is a tree, *)
(* matched the way the backtracking matcher of String.prototype.replace    *)
(* and match does: Match yields the matcher's successive choices in order  *)
(* of preference, and the first one is the match it reports.               *)
(***************************************************************************)
SpaceChars == {" ", "\n", "\t", "\r", "\f"}
WordChars == LowerLetters \cup UpperLetters \cup Digits \cup {"_"}
Letters == LowerLetters \cup UpperLetters
HexDigits == Digits \cup {"a","b","c","d","e","f","A","B","C","D","E","F"}

Lit(str) == [k |-> "lit", s |-> str]
OneOf(chars) == [k |-> "set", cs |-> chars, neg |-> FALSE]
NoneOf(chars) == [k |-> "set", cs |-> chars, neg |-> TRUE]
AnyChar == NoneOf({})
Cat(parts) == [k |-> "cat", rs |-> parts]
Alt(parts) == [k |-> "alt", rs |-> parts]
\* r{min,max}, max = -1 for no upper limit
Rep(r, min, max, greedy) ==
  [k |-> "rep", r |-> r, min |-> min, max |-> max, greedy |-> greedy]
Star(r) == Rep(r, 0, -1, TRUE)
Plus(r) == Rep(r, 1, -1, TRUE)
LazyStar(r) == Rep(r, 0, -1, FALSE)
Opt(r) == Rep(r, 0, 1, TRUE)
Group(n, r) == [k |-> "grp", n |-> n, r |-> r]
Ahead(r) == [k |-> "look", r |-> r, neg |-> FALSE]
NotAhead(r) == [k |-> "look", r |-> r, neg |-> TRUE]
\* $, with or without flag m
EndAnchor(multiline) == [k |-> "end", m |-> multiline]
\* \b
WordBoundary == [k |-> "wb"]

NoCaptures == <<"", "", "">>
MatchState(pos, caps) == [pos |-> pos, caps |-> caps]

IsWordAt(s, i) == i >= 1 /\ i <= Len(s) /\ CharAt(s, i) \in WordChars

\* a repetition of a character set: the run of characters of the set that
\* starts at st.pos, and the choices it leaves, longest first when greedy
SetRun(re, s, pos) ==
  LET limit == IF re.max = -1 THEN Len(s) - pos + 1
               ELSE Min2(re.max, Len(s) - pos + 1)
  IN  SetMin({n \in 0..limit :
                n = limit \/ ((CharAt(s, pos + n) \in re.r.cs) = re.r.neg)})
MatchSetRep(re, s, st) ==
  [n \in 1..(SetRun(re, s, st.pos) - re.min + 1) |->
     MatchState(IF re.greedy THEN st.pos + SetRun(re, s, st.pos) - n + 1
                ELSE st.pos + re.min + n - 1,
                st.caps)]

\* group n captures what was matched from position from on
Capture(n, s, from, sts) ==
  [i \in 1..Len(sts) |->
     MatchState(sts[i].pos,
                [sts[i].caps EXCEPT ![n] = SubSeq(s, from, sts[i].pos - 1)])]

RECURSIVE Match(_, _, _)
RECURSIVE MatchEach(_, _, _)
RECURSIVE MatchCat(_, _, _)
RECURSIVE MatchAlt(_, _, _, _)
RECURSIVE MatchRep(_, _, _, _)
RECURSIVE MatchRepEach(_, _, _, _)

\* the choices of pattern re at state st of string s, best first
Match(re, s, st) ==
  CASE re.k = "lit" ->
         IF StartsAt(s, re.s, st.pos)
         THEN <<MatchState(st.pos + Len(re.s), st.caps)>> ELSE <<>>
    [] re.k = "set" ->
         IF st.pos <= Len(s) /\ ((CharAt(s, st.pos) \in re.cs) # re.neg)
         THEN <<MatchState(st.pos + 1, st.caps)>> ELSE <<>>
    [] re.k = "cat" -> MatchCat(re.rs, s, <<st>>)
    [] re.k = "alt" -> MatchAlt(re.rs, 1, s, st)
    [] re.k = "rep" ->
         IF re.r.k = "set" THEN MatchSetRep(re, s, st) ELSE MatchRep(re, s, st, 0)
    [] re.k = "grp" -> Capture(re.n, s, st.pos, Match(re.r, s, st))
    [] re.k = "look" ->
         IF (Len(Match(re.r, s, st)) > 0) # re.neg THEN <<st>> ELSE <<>>
    [] re.k = "end" ->
         IF \/ st.pos = Len(s) + 1
            \/ re.m /\ st.pos <= Len(s) /\ CharAt(s, st.pos) \in {"\n", "\r"}
         THEN <<st>> ELSE <<>>
    [] re.k = "wb" ->
         IF IsWordAt(s, st.pos - 1) # IsWordAt(s, st.pos) THEN <<st>> ELSE <<>>

MatchEach(re, s, sts) ==
  IF Len(sts) = 0 THEN <<>>
  ELSE IF Len(sts) = 1 THEN Match(re, s, sts[1])
  ELSE MatchEach(re, s, SubSeq(sts, 1, Len(sts) \div 2))
       \o MatchEach(re, s, SubSeq(sts, Len(sts) \div 2 + 1, Len(sts)))

\* the parts rs one after the other, from each state of sts
MatchCat(rs, s, sts) ==
  IF Len(rs) = 0 \/ Len(sts) = 0 THEN sts
  ELSE IF Len(rs) = 1 THEN MatchEach(rs[1], s, sts)
  ELSE MatchCat(SubSeq(rs, Len(rs) \div 2 + 1, Len(rs)), s,
                MatchCat(SubSeq(rs, 1, Len(rs) \div 2), s, sts))

MatchAlt(rs, i, s, st) ==
  IF i > Len(rs) THEN <<>>
  ELSE Match(rs[i], s, st) \o MatchAlt(rs, i + 1, s, st)

MatchRep(re, s, st, count) ==
  LET once == SelectSeq(Match(re.r, s, st), LAMBDA m : m.pos > st.pos)
      more == IF re.max = -1 \/ count < re.max
              THEN MatchRepEach(re, s, once, count + 1) ELSE <<>>
      stop == IF count >= re.min THEN <<st>> ELSE <<>>
  IN  IF re.greedy THEN more \o stop ELSE stop \o more

MatchRepEach(re, s, sts, count) ==
  IF Len(sts) = 0 THEN <<>>
  ELSE IF Len(sts) = 1 THEN MatchRep(re, s, sts[1], count)
  ELSE MatchRepEach(re, s, SubSeq(sts, 1, Len(sts) \div 2), count)
       \o MatchRepEach(re, s, SubSeq(sts, Len(sts) \div 2 + 1, Len(sts)), count)

\* the first match of re in s at or after position from: [found, start, end, caps]
NotFound == [found |-> FALSE, start |-> 0, end |-> 0, caps |-> NoCaptures]
FoundAt(from, ms) ==
  IF Len(ms) > 0
  THEN [found |-> TRUE, start |-> from, end |-> ms[1].pos - 1, caps |-> ms[1].caps]
  ELSE NotFound
RECURSIVE SearchIn(_, _, _, _)
RECURSIVE SearchOn(_, _, _, _, _)
\* the match that starts first in lo..hi
SearchIn(re, s, lo, hi) ==
  IF lo > hi THEN NotFound
  ELSE IF lo = hi THEN FoundAt(lo, Match(re, s, MatchState(lo, NoCaptures)))
  ELSE SearchOn(SearchIn(re, s, lo, (lo + hi) \div 2), re, s, (lo + hi) \div 2 + 1, hi)
SearchOn(m, re, s, lo, hi) == IF m.found THEN m ELSE SearchIn(re, s, lo, hi)
Search(re, s, from) == SearchIn(re, s, from, Len(s) + 1)

RECURSIVE Replace(_, _, _, _)

Backslash == "\\"
\* the callback of lines 415-422, m = [match, caps]
DoubleEscape(m) ==
  LET char == SubSeq(m.match, 2, 2)
  IN  IF char \in Letters \cup Digits
      THEN Backslash \o Backslash \o char
      ELSE m.match

\* /^-?\d+(?:\.\d+)?$/.test(val), line 304
IsNumberText(val) ==
  Len(Match(Cat(<<Opt(Lit("-")), Plus(OneOf(Digits)),
                  Opt(Cat(<<Lit("."), Plus(OneOf(Digits))>>)), EndAnchor(FALSE)>>),
            val, MatchState(1, NoCaptures))) > 0

\* the callback of lines 300-308, m = [match, caps]
QuoteBareValue(m) ==
  LET val == Trim(m.caps[1])
  IN  IF val = "" THEN ": \"\""
      ELSE IF \/ SubSeq(val, 1, 1) \in {"\"", "'", "[", "{"}
              \/ IsNumberText(val)
      THEN ": " \o val
      ELSE ": \""
           \o Replace(val, Lit("\""), TRUE,
                      <<[k |-> "text", s |-> Backslash \o "\"", n |-> 0]>>)
           \o "\""

\* replacements: literal text, $1..$3, or one of the two callbacks
Text(str) == [k |-> "text", s |-> str, n |-> 0]
Ref(n) == [k |-> "ref", s |-> "", n |-> n]
Callback(name) == [k |-> name, s |-> "", n |-> 0]
RECURSIVE Expand(_, _)
Expand(template, m) ==
  IF Len(template) = 0 THEN ""
  ELSE (CASE Head(template).k = "text" -> Head(template).s
          [] Head(template).k = "ref" -> m.caps[Head(template).n]
          [] Head(template).k = "DoubleEscape" -> DoubleEscape(m)
          [] Head(template).k = "QuoteBareValue" -> QuoteBareValue(m))
       \o Expand(Tail(template), m)

\* the successive matches that replace works on (all of them with flag g)
RECURSIVE Matches(_, _, _, _)
Matches(re, s, from, global) ==
  LET m == Search(re, s, from)
  IN  IF ~m.found THEN <<>>
      ELSE <<m>> \o (IF global
                     THEN Matches(re, s, IF m.end >= m.start THEN m.end + 1
                                         ELSE m.start + 1, TRUE)
                     ELSE <<>>)

RECURSIVE Stitch(_, _, _, _, _)
\* s from pos on, with each match from the i-th on replaced
Stitch(s, ms, template, i, pos) ==
  IF i > Len(ms) THEN SubSeq(s, pos, Len(s))
  ELSE SubSeq(s, pos, ms[i].start - 1)
       \o Expand(template, [match |-> SubSeq(s, ms[i].start, ms[i].end),
                            caps |-> ms[i].caps])
       \o Stitch(s, ms, template, i + 1, ms[i].end + 1)

\* s.replace(re, template) (no pattern of this module matches the empty
\* string)
Replace(s, re, global, template) ==
  IF s = "" THEN "" ELSE Stitch(s, Matches(re, s, 1, global), template, 1, 1)

\* one call of replace: the pattern, its flag g, the replacement
Global(re, template) == [re |-> re, global |-> TRUE, template |-> template]
Once(re, template) == [re |-> re, global |-> FALSE, template |-> template]

\* s = s.replace(...) for each call of calls, in order (an empty text stays
\* empty)
RECURSIVE ReplaceEach(_, _)
ReplaceEach(s, calls) ==
  IF s = "" \/ Len(calls) = 0 THEN s
  ELSE ReplaceEach(Replace(s, Head(calls).re, Head(calls).global,
                           Head(calls).template),
                   Tail(calls))

\* (s.match(re) || []).length with flag g
CountMatches(s, re) == Len(Matches(re, s, 1, TRUE))

Spaces == Star(OneOf(SpaceChars))
NotQuote == NoneOf({"\""})
\* [^",}\]]
NotQuoteCommaCloser == NoneOf({"\"", ",", "}", "]"})
\* /,(\s*[}\]])/g, lines 267 and 357
TrailingComma == Cat(<<Lit(","), Group(1, Cat(<<Spaces, OneOf({"}", "]"})>>))>>)

(***************************************************************************)
(* fixEscapeCharacterIssues                                                *)
(***************************************************************************)
fixEscapeCharacterIssues(text) ==
  LET \* /\\[^"\\\/bfnrtux]/g, line 415
      BadEscape ==
        Cat(<<Lit(Backslash),
              NoneOf({"\"", Backslash, "/", "b", "f", "n", "r", "t", "u", "x"})>>)
      \* /\\(?=[^"\\\/bfnrtu])/g, line 424
      BackslashBeforeOther ==
        Cat(<<Lit(Backslash),
              Ahead(NoneOf({"\"", Backslash, "/", "b", "f", "n", "r", "t", "u"}))>>)
      \* /\\+$/g, line 426
      TrailingBackslashes == Cat(<<Plus(Lit(Backslash)), EndAnchor(FALSE)>>)
      \* /\\+"/g, line 428
      BackslashesBeforeQuote == Cat(<<Plus(Lit(Backslash)), Lit("\"")>>)
      \* /\\u(?![0-9a-fA-F]{4})/g, line 430
      BadUnicodeEscape ==
        Cat(<<Lit(Backslash \o "u"), NotAhead(Rep(OneOf(HexDigits), 4, 4, TRUE))>>)
  IN  ReplaceEach(text,
        <<Global(BadEscape, <<Callback("DoubleEscape")>>),
          Global(BackslashBeforeOther, <<Text(Backslash \o Backslash)>>),
          Global(TrailingBackslashes, <<>>),
          Global(BackslashesBeforeQuote, <<Text(Backslash \o "\"")>>),
          Global(BadUnicodeEscape, <<Text(Backslash \o Backslash \o "u")>>)>>)

(***************************************************************************)
(* fixArrayElementSeparation                                               *)
(***************************************************************************)
\* lines 347-353
CloseOpenBraces(fixed) ==
  IF Includes(fixed, "{") /\ ~Includes(fixed, "}")
  THEN LET openBraces == CountMatches(fixed, Lit("{"))
           closeBraces == CountMatches(fixed, Lit("}"))
       IN  IF openBraces > closeBraces
           THEN fixed \o Repeat("}", openBraces - closeBraces)
           ELSE fixed
  ELSE fixed

fixArrayElementSeparation(jsonText) ==
  LET \* /\}\s*\{/g, line 322
      AdjacentObjects == Cat(<<Lit("}"), Spaces, Lit("{")>>)
      \* /"\s+"([^",}\]]+)"/g, line 326
      AdjacentStrings ==
        Cat(<<Lit("\""), Plus(OneOf(SpaceChars)), Lit("\""),
              Group(1, Plus(NotQuoteCommaCloser)), Lit("\"")>>)
      \* /([^,\s])\s*\]/g, line 330
      SpaceBeforeBracket ==
        Cat(<<Group(1, NoneOf({","} \cup SpaceChars)), Spaces, Lit("]")>>)
      \* /\{\s*"([^"]*)":\s*"([^"]*)"([^,}]*)\s*\}/g, line 334
      MalformedPair ==
        Cat(<<Lit("{"), Spaces, Lit("\""), Group(1, Star(NotQuote)), Lit("\":"),
              Spaces, Lit("\""), Group(2, Star(NotQuote)), Lit("\""),
              Group(3, Star(NoneOf({",", "}"}))), Spaces, Lit("}")>>)
      \* /:\s*"([^"]*[a-zA-Z])\.\.\./g, line 338
      EllipsisValue ==
        Cat(<<Lit(":"), Spaces, Lit("\""),
              Group(1, Cat(<<Star(NotQuote), OneOf(Letters)>>)), Lit("...")>>)
      \* /:\s*"([^"]*)\s*$/gm, line 339
      OpenValueAtLineEnd ==
        Cat(<<Lit(":"), Spaces, Lit("\""), Group(1, Star(NotQuote)), Spaces,
              EndAnchor(TRUE)>>)
      \* /": "([^"]*)"([^",}\]]*)"([^",}\]]*)",/g, line 343
      QuotesInValueAfterKey ==
        Cat(<<Lit("\": \""), Group(1, Star(NotQuote)), Lit("\""),
              Group(2, Star(NotQuoteCommaCloser)), Lit("\""),
              Group(3, Star(NotQuoteCommaCloser)), Lit("\",")>>)
      \* /,+/g, line 356
      CommaRun == Plus(Lit(","))
  IN  ReplaceEach(
        CloseOpenBraces(
          ReplaceEach(jsonText,
            <<Global(AdjacentObjects, <<Text("},{")>>),
              Global(AdjacentStrings, <<Text("\", \""), Ref(1), Text("\"")>>),
              Global(SpaceBeforeBracket, <<Ref(1), Text("]")>>),
              Global(MalformedPair,
                     <<Text("{\""), Ref(1), Text("\": \""), Ref(2), Text("\"}")>>),
              Global(EllipsisValue, <<Text(": \""), Ref(1), Text("\"")>>),
              Global(OpenValueAtLineEnd, <<Text(": \""), Ref(1), Text("\"")>>),
              Global(QuotesInValueAfterKey,
                     <<Text("\": \""), Ref(1), Text(Backslash \o "\""), Ref(2),
                       Text(Backslash \o "\""), Ref(3), Text("\",")>>)>>)),
        <<Global(CommaRun, <<Text(",")>>),
          Global(TrailingComma, <<Ref(1)>>)>>)

(***************************************************************************)
(* cleanJsonText.  The texts are ASCII, on which the two replacements of    *)
(* typographic quotes (lines 264-265) change nothing.                      *)
(***************************************************************************)
\* the backquote character; three of them open and close a code fence
Backquote == SubSeq("`'", 1, 1)
Fence == Backquote \o Backquote \o Backquote

cleanJsonText(jsonText) ==
  LET \* /: "([^"]*)"([^",}\]]*)"([^",}\]]*)",/g, line 269
      QuotesInValue ==
        Cat(<<Lit(": \""), Group(1, Star(NotQuote)), Lit("\""),
              Group(2, Star(NotQuoteCommaCloser)), Lit("\""),
              Group(3, Star(NotQuoteCommaCloser)), Lit("\",")>>)
      \* /\/\/[^\n]*/g, line 271
      LineComment == Cat(<<Lit("//"), Star(NoneOf({"\n"}))>>)
      \* /\/\*[\s\S]*?\*\//g, line 272
      BlockComment == Cat(<<Lit("/*"), LazyStar(AnyChar), Lit("*/")>>)
      \* a fence, "json" and \s*, not global, line 274
      FenceOpen == Cat(<<Lit(Fence \o "json"), Spaces>>)
      \* a fence, \s* and $, not global, line 275
      FenceClose == Cat(<<Lit(Fence), Spaces, EndAnchor(FALSE)>>)
      \* /(\w+):/g, line 277
      UnquotedKey == Cat(<<Group(1, Plus(OneOf(WordChars))), Lit(":")>>)
      \* /: ([a-zA-Z_][a-zA-Z0-9_]*)/g, line 278
      UnquotedValue ==
        Cat(<<Lit(": "),
              Group(1, Cat(<<OneOf(Letters \cup {"_"}), Star(OneOf(WordChars))>>))>>)
      \* /'([A-Za-z0-9_]+)'\s*:/g, line 294
      SingleQuotedKey ==
        Cat(<<Lit("'"), Group(1, Plus(OneOf(WordChars))), Lit("'"), Spaces, Lit(":")>>)
      \* /:\s*'([^']*)'/g, line 296
      SingleQuotedValue ==
        Cat(<<Lit(":"), Spaces, Lit("'"), Group(1, Star(NoneOf({"'"}))), Lit("'")>>)
      \* /:\s*(?!true\b|false\b|null\b)([A-Za-z][A-Za-z0-9_\-\/.\s]*?)(?=\s*[,}\]])/g,
      \* line 300
      BareValue ==
        Cat(<<Lit(":"), Spaces,
              NotAhead(Alt(<<Cat(<<Lit("true"), WordBoundary>>),
                             Cat(<<Lit("false"), WordBoundary>>),
                             Cat(<<Lit("null"), WordBoundary>>)>>)),
              Group(1, Cat(<<OneOf(Letters),
                             LazyStar(OneOf(WordChars \cup {"-", "/", "."}
                                            \cup SpaceChars))>>)),
              Ahead(Cat(<<Spaces, OneOf({",", "}", "]"})>>))>>)
  IN  Trim(
        ReplaceEach(
          \* lines 286 and 289
          fixEscapeCharacterIssues(
            fixArrayElementSeparation(
              ReplaceEach(jsonText,
                <<Global(TrailingComma, <<Ref(1)>>),
                  Global(QuotesInValue,
                         <<Text(": \""), Ref(1), Text(Backslash \o "\""), Ref(2),
                           Text(Backslash \o "\""), Ref(3), Text("\",")>>),
                  Global(LineComment, <<>>),
                  Global(BlockComment, <<>>),
                  Once(FenceOpen, <<>>),
                  Once(FenceClose, <<>>),
                  Global(UnquotedKey, <<Text("\""), Ref(1), Text("\":")>>),
                  Global(UnquotedValue, <<Text(": \""), Ref(1), Text("\"")>>),
                  \* lines 280-282
                  Global(Lit(": \"true\""), <<Text(": true")>>),
                  Global(Lit(": \"false\""), <<Text(": false")>>),
                  Global(Lit(": \"null\""), <<Text(": null")>>)>>))),
          <<Global(SingleQuotedKey, <<Text("\""), Ref(1), Text("\":")>>),
            Global(SingleQuotedValue, <<Text(": \""), Ref(1), Text("\"")>>),
            Global(BareValue, <<Callback("QuoteBareValue")>>)>>))

(***************************************************************************)
(* sanitizeResponse                                                        *)
(***************************************************************************)
\* the letters of str in either case (flag i)
AnyCase(str) ==
  Cat([i \in 1..Len(str) |-> OneOf({c \in Letters : LowerChar(c) = CharAt(str, i)})])

\* /^[\s\n]*\{[\s\n]*$/g replaced by '', line 395: the pattern can only match
\* the whole text
DropLoneBrace(cleaned) ==
  IF Len(Match(Cat(<<Spaces, Lit("{"), Spaces, EndAnchor(FALSE)>>), cleaned,
               MatchState(1, NoCaptures))) > 0
  THEN "" ELSE cleaned

\* String.prototype.endsWith
EndsWith(s, sub) == StartsAt(s, sub, Len(s) - Len(sub) + 1)

\* mutant of CloseIfOpenedBy: the opener may be anywhere in the text
CloseIfIncludes(cleaned, opener, closer) ==
  IF Includes(cleaned, opener) /\ ~EndsWith(cleaned, closer)
  THEN cleaned \o closer ELSE cleaned

\* lines 398-400 and 401-403
CloseIfOpenedBy(cleaned, opener, closer) ==
  IF StartsAt(cleaned, opener, 1) /\ ~EndsWith(cleaned, closer)
  THEN cleaned \o closer ELSE cleaned

\* lines 390-395: the trimmed text without the problematic patterns
RemoveProblemPatterns(text) ==
  LET \* /really\s+really\s+really.*/gi, line 393
      ReallyLoop ==
        Cat(<<AnyCase("really"), Plus(OneOf(SpaceChars)), AnyCase("really"),
              Plus(OneOf(SpaceChars)), AnyCase("really"),
              Star(NoneOf({"\n", "\r"}))>>)
      \* /\.\.\.[\s\.]*$/g, line 394
      TrailingDots ==
        Cat(<<Lit("..."), Star(OneOf(SpaceChars \cup {"."})), EndAnchor(FALSE)>>)
  IN  DropLoneBrace(ReplaceEach(Trim(text),
                                <<Global(ReallyLoop, <<>>), Global(TrailingDots, <<>>)>>))

sanitizeResponse(text) ==
  CloseIfOpenedBy(CloseIfOpenedBy(RemoveProblemPatterns(text), "{", "}"), "[", "]")

(***************************************************************************)
(* JSON.parse.  A value is [t, n, s, items]: t its type, n the integer     *)
(* part of a number (1 and 0 for true and false), s the code units of a    *)
(* string (the fraction and exponent of a number), items the elements of   *)
(* an array or the members of an object.  A code unit is a one-character   *)
(* string, or the escape that denotes it when it was written \b or \uXXXX. *)
(***************************************************************************)
JsonValue(t, n, s, items) == [t |-> t, n |-> n, s |-> s, items |-> items]
JsonNull == JsonValue("null", 0, <<>>, <<>>)
JsonBool(b) == JsonValue("bool", IF b THEN 1 ELSE 0, <<>>, <<>>)
JsonNumber(n, rest) == JsonValue("number", n, rest, <<>>)
JsonString(units) == JsonValue("string", 0, units, <<>>)
JsonArray(items) == JsonValue("array", 0, <<>>, items)
JsonObject(members) == JsonValue("object", 0, <<>>, members)
JsonMember(key, v) == JsonValue("member", 0, key, <<v>>)

Parsed(pos, v) == [ok |-> TRUE, pos |-> pos, v |-> v]
ParseFailure == [ok |-> FALSE, pos |-> 0, v |-> JsonNull]

\* the character at i, "" outside the text
CharOf(s, i) == IF i >= 1 /\ i <= Len(s) THEN SubSeq(s, i, i) ELSE ""

JsonSpaceChars == {" ", "\t", "\n", "\r"}
SkipJsonSpace(s, pos) ==
  SetMin({j \in pos..(Len(s) + 1) : j = Len(s) + 1 \/ CharOf(s, j) \notin JsonSpaceChars})

DigitValue(c) ==
  CASE c = "0" -> 0 [] c = "1" -> 1 [] c = "2" -> 2 [] c = "3" -> 3 [] c = "4" -> 4
    [] c = "5" -> 5 [] c = "6" -> 6 [] c = "7" -> 7 [] c = "8" -> 8 [] c = "9" -> 9
RECURSIVE DigitsValue(_, _)
DigitsValue(digits, acc) ==
  IF digits = "" THEN acc
  ELSE DigitsValue(SubSeq(digits, 2, Len(digits)),
                   10 * acc + DigitValue(SubSeq(digits, 1, 1)))
RECURSIVE DropTrailingZeros(_)
DropTrailingZeros(digits) ==
  IF digits # "" /\ SubSeq(digits, Len(digits), Len(digits)) = "0"
  THEN DropTrailingZeros(SubSeq(digits, 1, Len(digits) - 1))
  ELSE digits

\* -?(0|[1-9][0-9]*)(\.[0-9]+)?([eE][+-]?[0-9]+)?
JsonNumberPattern ==
  Cat(<<Opt(Lit("-")),
        Group(1, Alt(<<Cat(<<OneOf(Digits \ {"0"}), Star(OneOf(Digits))>>), Lit("0")>>)),
        Opt(Cat(<<Lit("."), Group(2, Plus(OneOf(Digits)))>>)),
        Opt(Group(3, Cat(<<OneOf({"e", "E"}), Opt(OneOf({"+", "-"})),
                           Plus(OneOf(Digits))>>)))>>)
ParseNumber(s, pos) ==
  LET ms == Match(JsonNumberPattern, s, MatchState(pos, NoCaptures))
  IN  IF Len(ms) = 0 THEN ParseFailure
      ELSE LET int == DigitsValue(ms[1].caps[1], 0)
               frac == DropTrailingZeros(ms[1].caps[2])
               exp == ToLowerCase(ms[1].caps[3])
           IN  Parsed(ms[1].pos,
                      JsonNumber(IF CharOf(s, pos) = "-" THEN 0 - int ELSE int,
                                 (IF frac = "" THEN <<>> ELSE <<"." \o frac>>)
                                 \o (IF exp = "" THEN <<>> ELSE <<exp>>)))

RECURSIVE ParseStringFrom(_, _, _)
\* the characters of a string after its opening quote
ParseStringFrom(s, i, units) ==
  IF i > Len(s) THEN ParseFailure
  ELSE LET c == CharOf(s, i)
           e == CharOf(s, i + 1)
       IN  IF c = "\"" THEN Parsed(i + 1, JsonString(units))
           ELSE IF c \in {"\n", "\r", "\t", "\f"} THEN ParseFailure
           ELSE IF c # Backslash THEN ParseStringFrom(s, i + 1, Append(units, c))
           ELSE IF i + 1 > Len(s) THEN ParseFailure
           ELSE IF e \in {"\"", Backslash, "/"}
           THEN ParseStringFrom(s, i + 2, Append(units, e))
           ELSE IF e \in {"n", "r", "t", "f", "b"}
           THEN ParseStringFrom(s, i + 2,
                  Append(units, CASE e = "n" -> "\n" [] e = "r" -> "\r"
                                  [] e = "t" -> "\t" [] e = "f" -> "\f"
                                  [] e = "b" -> Backslash \o "b"))
           ELSE IF /\ e = "u"
                   /\ i + 5 <= Len(s)
                   /\ \A j \in (i + 2)..(i + 5) : CharOf(s, j) \in HexDigits
           THEN ParseStringFrom(s, i + 6,
                  Append(units, Backslash \o "u" \o ToLowerCase(SubSeq(s, i + 2, i + 5))))
           ELSE ParseFailure

\* members with member (key, v) set: a repeated key keeps its place and
\* takes the later value
SetMember(members, key, v) ==
  IF \E k \in 1..Len(members) : members[k].s = key
  THEN [k \in 1..Len(members) |->
          IF members[k].s = key THEN JsonMember(key, v) ELSE members[k]]
  ELSE Append(members, JsonMember(key, v))

RECURSIVE ParseValue(_, _)
RECURSIVE ParseElements(_, _, _)
RECURSIVE ParseMembers(_, _, _)

\* the value that starts at pos
ParseValue(s, pos) ==
  LET c == CharOf(s, pos)
  IN  IF pos > Len(s) THEN ParseFailure
      ELSE IF c = "{"
      THEN LET q == SkipJsonSpace(s, pos + 1)
           IN  IF CharOf(s, q) = "}" THEN Parsed(q + 1, JsonObject(<<>>))
               ELSE ParseMembers(s, q, <<>>)
      ELSE IF c = "["
      THEN LET q == SkipJsonSpace(s, pos + 1)
           IN  IF CharOf(s, q) = "]" THEN Parsed(q + 1, JsonArray(<<>>))
               ELSE ParseElements(s, q, <<>>)
      ELSE IF c = "\"" THEN ParseStringFrom(s, pos + 1, <<>>)
      ELSE IF StartsAt(s, "true", pos) THEN Parsed(pos + 4, JsonBool(TRUE))
      ELSE IF StartsAt(s, "false", pos) THEN Parsed(pos + 5, JsonBool(FALSE))
      ELSE IF StartsAt(s, "null", pos) THEN Parsed(pos + 4, JsonNull)
      ELSE ParseNumber(s, pos)

\* the elements of an array from the element that starts at pos
ParseElements(s, pos, items) ==
  LET el == ParseValue(s, pos)
      q == SkipJsonSpace(s, el.pos)
  IN  IF ~el.ok THEN ParseFailure
      ELSE IF CharOf(s, q) = "]" THEN Parsed(q + 1, JsonArray(Append(items, el.v)))
      ELSE IF CharOf(s, q) = ","
      THEN ParseElements(s, SkipJsonSpace(s, q + 1), Append(items, el.v))
      ELSE ParseFailure

\* the members of an object from the key that starts at pos
ParseMembers(s, pos, members) ==
  LET key == IF CharOf(s, pos) = "\"" THEN ParseStringFrom(s, pos + 1, <<>>)
             ELSE ParseFailure
      colon == SkipJsonSpace(s, key.pos)
      val == IF key.ok /\ CharOf(s, colon) = ":"
             THEN ParseValue(s, SkipJsonSpace(s, colon + 1))
             ELSE ParseFailure
      q == SkipJsonSpace(s, val.pos)
      next == SetMember(members, key.v.s, val.v)
  IN  IF ~val.ok THEN ParseFailure
      ELSE IF CharOf(s, q) = "}" THEN Parsed(q + 1, JsonObject(next))
      ELSE IF CharOf(s, q) = ","
      THEN ParseMembers(s, SkipJsonSpace(s, q + 1), next)
      ELSE ParseFailure

\* JSON.parse(text): [ok, v], ok false when it throws
JsonParse(text) ==
  LET top == ParseValue(text, SkipJsonSpace(text, 1))
  IN  IF top.ok /\ SkipJsonSpace(text, top.pos) = Len(text) + 1
      THEN [ok |-> TRUE, v |-> top.v]
      ELSE [ok |-> FALSE, v |-> JsonNull]

(***************************************************************************)
(* parseJsonWithResilience                                                 *)
(***************************************************************************)
\* String.prototype.lastIndexOf, counted from 1 (0 if absent)
LastIndexOf(s, sub) ==
  LET hits == {i \in 1..(Len(s) - Len(sub) + 1) : StartsAt(s, sub, i)}
  IN  IF hits = {} THEN 0 ELSE SetMax(hits)

\* mutant of StripThinking: the text is cut after the first closing marker
StripThinkingAfterFirst(text) ==
  IF Includes(text, "<think>") /\ Includes(text, "</think>")
  THEN Trim(SubSeq(text,
                   SetMin({i \in 1..Len(text) : StartsAt(text, "</think>", i)}) + 8,
                   Len(text)))
  ELSE text

\* lines 217-223
StripThinking(text) ==
  IF Includes(text, "<think>") /\ Includes(text, "</think>")
  THEN LET thinkEnd == LastIndexOf(text, "</think>")
       IN  IF thinkEnd # 0 THEN Trim(SubSeq(text, thinkEnd + 8, Len(text))) ELSE text
  ELSE text

\* /\{[\s\S]*\}/, line 226
ObjectSpan == Cat(<<Lit("{"), Star(AnyChar), Lit("}")>>)
\* /\[[\s\S]*\]/, line 238
ArraySpan == Cat(<<Lit("["), Star(AnyChar), Lit("]")>>)

\* the outcome of one extraction strategy: whether its pattern matched and
\* what JSON.parse made of the cleaned match
NotTried == [tried |-> FALSE, ok |-> FALSE, v |-> JsonNull]
Tried(parsed) == [tried |-> TRUE, ok |-> parsed.ok, v |-> parsed.v]

\* JSON.parse(cleanJsonText(match[0])) for the match m, lines 228-230 and
\* 240-242
ParseMatch(cleanText, m) ==
  IF m.found
  THEN Tried(JsonParse(cleanJsonText(SubSeq(cleanText, m.start, m.end))))
  ELSE NotTried

\* cleanText.match(span), then the parse of the match
SpanAttempt(cleanText, span) == ParseMatch(cleanText, Search(span, cleanText, 1))

\* Array.isArray(parsed) ? parsed : [parsed], line 243
AsArray(v) == IF v.t = "array" THEN v ELSE JsonArray(<<v>>)

JsonReturn(v, steps) == [threw |-> FALSE, value |-> v, message |-> "", steps |-> steps]
JsonThrow(steps) ==
  [threw |-> TRUE, value |-> JsonNull,
   message |-> "Invalid JSON after all extraction attempts", steps |-> steps]

Step(attempt, name) == IF attempt.tried THEN <<name>> ELSE <<>>

\* mutant of FirstSuccess: the direct parse is the last resort
FirstSuccessRepairFirst(direct, object, array) ==
  IF object.ok THEN JsonReturn(object.v, <<"direct">>)
  ELSE IF array.ok THEN JsonReturn(AsArray(array.v), <<"direct">>)
  ELSE IF direct.ok THEN JsonReturn(direct.v, <<"direct">>)
  ELSE JsonThrow(<<"direct">>)

\* mutant of FirstSuccess: the array span is tried before the object span
FirstSuccessArrayFirst(direct, object, array) ==
  IF direct.ok THEN JsonReturn(direct.v, <<"direct">>)
  ELSE IF array.ok
  THEN JsonReturn(AsArray(array.v), <<"direct">> \o Step(array, "array"))
  ELSE IF object.ok
  THEN JsonReturn(object.v,
                  <<"direct">> \o Step(array, "array") \o Step(object, "object"))
  ELSE JsonThrow(<<"direct">> \o Step(array, "array") \o Step(object, "object"))

\* the try blocks of lines 211-249 in order: the first strategy that parses
\* returns, and line 252 throws when none does
FirstSuccess(direct, object, array) ==
  IF direct.ok THEN JsonReturn(direct.v, <<"direct">>)
  ELSE IF object.ok
  THEN JsonReturn(object.v, <<"direct">> \o Step(object, "object"))
  ELSE IF array.ok
  THEN JsonReturn(AsArray(array.v),
                  <<"direct">> \o Step(object, "object") \o Step(array, "array"))
  ELSE JsonThrow(<<"direct">> \o Step(object, "object") \o Step(array, "array"))

\* the returned value or the thrown error, and the strategies that ran
parseJsonWithResilience(text) ==
  FirstSuccess(JsonParse(text),
               SpanAttempt(StripThinking(text), ObjectSpan),
               SpanAttempt(StripThinking(text), ArraySpan))

(***************************************************************************)
(* Calls of the JSON functions on texts drawn from bounded sets: a core    *)
(* (a valid object or array, or a broken one) inside optional noise.       *)
(***************************************************************************)
MaxItems == 1
MaxPasses == 2

Units(str) == [i \in 1..Len(str) |-> SubSeq(str, i, i)]
\* JSON texts with the values they denote
JsonSamples ==
  {[text |-> "1", value |-> JsonNumber(1, <<>>)],
   [text |-> "\"x\"", value |-> JsonString(<<"x">>)],
   [text |-> "true", value |-> JsonBool(TRUE)],
   [text |-> "null", value |-> JsonNull],
   [text |-> "\"b: c\"", value |-> JsonString(Units("b: c"))],
   [text |-> "\"x//y\"", value |-> JsonString(Units("x//y"))],
   [text |-> "\"c\\\\d\"", value |-> JsonString(<<"c", Backslash, "d">>)],
   [text |-> "\"true\"", value |-> JsonString(Units("true"))],
   [text |-> "[1, 2]", value |-> JsonArray(<<JsonNumber(1, <<>>), JsonNumber(2, <<>>)>>)],
   [text |-> "{\"k\": 2}",
    value |-> JsonObject(<<JsonMember(<<"k">>, JsonNumber(2, <<>>))>>)]}
PlainSamples == {m \in JsonSamples : m.text \in {"1", "\"x\""}}
\* one sample, followed by up to MaxItems - 1 plain ones
SampleLists ==
  UNION {{<<m>> \o rest : m \in JsonSamples, rest \in [1..n -> PlainSamples]} :
           n \in 0..(MaxItems - 1)}
MemberKeys == <<"a", "b", "c", "d">>

RECURSIVE ObjectTextFrom(_, _)
ObjectTextFrom(list, k) ==
  IF k > Len(list) THEN ""
  ELSE (IF k > 1 THEN ", " ELSE "") \o "\"" \o MemberKeys[k] \o "\": "
       \o list[k].text \o ObjectTextFrom(list, k + 1)
RECURSIVE ArrayTextFrom(_, _)
ArrayTextFrom(list, k) ==
  IF k > Len(list) THEN ""
  ELSE (IF k > 1 THEN ", " ELSE "") \o list[k].text \o ArrayTextFrom(list, k + 1)

ValidObjects ==
  {[text |-> "{" \o ObjectTextFrom(list, 1) \o "}", valid |-> TRUE,
    value |-> JsonObject([k \in 1..Len(list) |->
                            JsonMember(<<MemberKeys[k]>>, list[k].value)])] :
     list \in SampleLists}
ValidArrays ==
  {[text |-> "[" \o ArrayTextFrom(list, 1) \o "]", valid |-> TRUE,
    value |-> JsonArray([k \in 1..Len(list) |-> list[k].value])] :
     list \in SampleLists}
BrokenTexts ==
  {"{a: 1}", "{\"a\": 1,}", "{'a': 'b'}", "{\"a\": tru}", "{bad}",
   "{\"a\": \"\\q\"}", "[1, 2,]", "{\"a\": 1", "no json here",
   "{bad} [1, 2]", "[1] {\"a\": 1}", "{\"a\": 2} [3]", "[\"x\" \"y\"]"}
BrokenCores == {[text |-> t, valid |-> FALSE, value |-> JsonNull] : t \in BrokenTexts}
JsonCores == ValidObjects \cup ValidArrays \cup BrokenCores

\* an object whose value is a bare phrase, with the object the phrase stands for
BarePhrases == {"create", "do it", "create patterns now"}
PhraseCores ==
  {[text |-> "{\"a\": " \o p \o "}", valid |-> FALSE,
    value |-> JsonObject(<<JsonMember(<<"a">>, JsonString(Units(p)))>>)] :
     p \in BarePhrases}

\* a valid text with a comma, and optional whitespace, put before one of its
\* closers (no sample has a closer inside a string), with the value of the
\* text without the comma
Closers(t) == {p \in 1..Len(t) : SubSeq(t, p, p) \in {"}", "]"}}
CommaBefore(c, p, ws) ==
  [text |-> SubSeq(c.text, 1, p - 1) \o "," \o ws \o SubSeq(c.text, p, Len(c.text)),
   valid |-> FALSE, value |-> c.value]
CommaCores ==
  UNION {{CommaBefore(c, p, ws) : p \in Closers(c.text), ws \in {"", " "}} :
           c \in ValidObjects \cup ValidArrays}

NoisePrefixes == {"", "Answer: ", "<think>{x}</think> "}
NoiseSuffixes == {"", " extra noise"}
\* thinking blocks that hold JSON of their own: closed, closed twice, closed
\* before it is opened, not closed, not opened
ClosedThinkPrefixes ==
  {"<think>{\"t\": 1}</think> ", "<think>a</think> {\"t\": 1}</think> ",
   "</think>x<think>{\"t\": 1}</think>\n"}
OpenThinkPrefixes == {"<think>{\"t\": 1} ", "{\"t\": 1}</think> "}
ThinkCores ==
  {c \in JsonCores :
     c.text \in {"no json here", "{\"a\": 1,}", "{\"a\": 2} [3]", "{\"a\": 1}", "[1, 2,]"}}
\* an array whose only element is one of the valid objects
WrappedObjects ==
  {[text |-> "[" \o c.text \o "]", valid |-> TRUE, value |-> JsonArray(<<c.value>>)] :
     c \in ValidObjects}
JsonShapes ==
  [family : {"json"}, core : JsonCores \cup WrappedObjects, prefix : NoisePrefixes,
   suffix : NoiseSuffixes]
  \cup [family : {"json"}, core : PhraseCores \cup CommaCores, prefix : {""},
        suffix : {""}]
  \cup [family : {"json"}, core : ThinkCores,
        prefix : ClosedThinkPrefixes \cup OpenThinkPrefixes, suffix : {""}]
JsonText(j) == j.prefix \o j.core.text \o j.suffix
JsonCalls ==
  {[fn |-> f, text |-> JsonText(j), second |-> "", shape |-> j] :
     f \in {"parseJsonWithResilience", "cleanJsonText"}, j \in JsonShapes}

\* calls of the repair functions on their own
Piece(fn, pre, mid, post) ==
  [fn |-> fn, text |-> pre \o mid \o post, second |-> "",
   shape |-> [family |-> "repair", core |-> [text |-> mid, valid |-> FALSE,
                                             value |-> JsonNull],
              prefix |-> pre, suffix |-> post]]
\* candidates with and without unclosed braces
BraceTexts ==
  {"{\"a\": 1", "{\"a\": {\"b\": 1", "{\"a\": {\"b\": 1}", "[{\"a\": 1}, {\"b\": 2",
   "[{\"a\": 1", "{\"a\": 1}", "[1, 2]", "{\"a\": {\"b\": 1}}"}
\* a backslash before one character, alone and inside a string value
EscapedChars == {"d", "q", "1", "Z", "x", "n", "u", "-", Backslash}
EscapeCalls ==
  {Piece("fixEscapeCharacterIssues", pre, Backslash \o ch, post) :
     pre \in {"", "{\"a\": \"c"}, ch \in EscapedChars, post \in {"", "e\"}"}}
SanitizeTexts ==
  {"", "text", "Done.", "{", " { ", "[", "{\"a\": 1", "{\"a\": 1}", "  {\"a\": 1}  ",
   "[1, 2", "[1, 2]", "{\"a\": [1", "[{\"a\": 1}", "see {\"a\": 1", "see [1",
   "{\"a\": 1}...", "[1, 2] ... .", "{ ...", "{\"a\": 1 really really really so",
   "[1, Really  REALLY\nreally 2] x", "really really really\n[1", "{]", "[}"}
RepairCalls ==
  {Piece("fixArrayElementSeparation", "", t, "") : t \in BraceTexts}
  \cup EscapeCalls
  \cup {Piece("sanitizeResponse", "", t, "") : t \in SanitizeTexts}

ParseJsonWithResilience ==
  /\ call.fn = "parseJsonWithResilience"
  /\ result.kind = "none"
  /\ result' = Returned(parseJsonWithResilience(call.text))
  /\ UNCHANGED <<embedVars, hookVars, call, frames, signal, timers, lateGens, log>>

\* cleanJsonText applied to the text, then to its own output
CleanJsonText ==
  /\ call.fn = "cleanJsonText"
  /\ Len(log) < MaxPasses
  /\ log' = Append(log, cleanJsonText(IF Len(log) = 0 THEN call.text
                                      ELSE log[Len(log)]))
  /\ UNCHANGED <<embedVars, hookVars, call, frames, signal, result, timers, lateGens>>

FixArrayElementSeparation ==
  /\ call.fn = "fixArrayElementSeparation"
  /\ result.kind = "none"
  /\ result' = Returned(fixArrayElementSeparation(call.text))
  /\ UNCHANGED <<embedVars, hookVars, call, frames, signal, timers, lateGens, log>>

FixEscapeCharacterIssues ==
  /\ call.fn = "fixEscapeCharacterIssues"
  /\ result.kind = "none"
  /\ result' = Returned(fixEscapeCharacterIssues(call.text))
  /\ UNCHANGED <<embedVars, hookVars, call, frames, signal, timers, lateGens, log>>

SanitizeResponse ==
  /\ call.fn = "sanitizeResponse"
  /\ result.kind = "none"
  /\ result' = Returned(sanitizeResponse(call.text))
  /\ UNCHANGED <<embedVars, hookVars, call, frames, signal, timers, lateGens, log>>

JsonInit ==
  /\ call \in JsonCalls \cup RepairCalls
  /\ frames = <<>>
  /\ signal = NoSignal
  /\ result = NoSignal
  /\ timers = <<>>
  /\ lateGens = {}
  /\ log = <<>>
  /\ EmbedIdle
  /\ HookIdle

JsonNext ==
  \/ ParseJsonWithResilience
  \/ CleanJsonText
  \/ FixArrayElementSeparation
  \/ FixEscapeCharacterIssues
  \/ SanitizeResponse

JsonSpec == JsonInit /\ [][JsonNext]_vars

ParseReturned ==
  /\ call.fn = "parseJsonWithResilience"
  /\ result.kind = "returned"
Bare == call.shape.prefix = "" /\ call.shape.suffix = ""

\* C17: for a text that is valid JSON, parseJsonWithResilience returns the
\* value of the strict parse of the whole text and runs no later step.
C17_ValidJsonParsedDirectly ==
  (ParseReturned /\ call.shape.core.valid /\ Bare) =>
    /\ ~result.value.threw
    /\ result.value.value = call.shape.core.value
    /\ result.value.steps = <<"direct">>
C17_Witness ==
  /\ ParseReturned
  /\ call.text = "{\"a\": \"b: c\"}"
  /\ result.value.value = JsonObject(<<JsonMember(<<"a">>, JsonString(Units("b: c")))>>)
  /\ result.value.steps = <<"direct">>

\* C18: parseJsonWithResilience tries the direct parse, then the cleaned
\* object span, then the cleaned array span; a strategy runs only if all
\* earlier ones failed, the first success is returned, the error is thrown
\* only when every applicable strategy failed, and no strategy runs twice.
DirectTry == JsonParse(call.text)
ObjectTry == SpanAttempt(StripThinking(call.text), ObjectSpan)
ArrayTry == SpanAttempt(StripThinking(call.text), ArraySpan)
Ran(name) == \E k \in 1..Len(result.value.steps) : result.value.steps[k] = name
C18_StrategiesInOrder ==
  ParseReturned =>
    LET r == result.value
    IN  /\ r.steps \in {<<"direct">>, <<"direct", "object">>, <<"direct", "array">>,
                        <<"direct", "object", "array">>}
        /\ Ran("object") <=> (~DirectTry.ok /\ ObjectTry.tried)
        /\ Ran("array") <=> (~DirectTry.ok /\ ~ObjectTry.ok /\ ArrayTry.tried)
        /\ DirectTry.ok => (~r.threw /\ r.value = DirectTry.v)
        /\ (~DirectTry.ok /\ ObjectTry.ok) => (~r.threw /\ r.value = ObjectTry.v)
        /\ (~DirectTry.ok /\ ~ObjectTry.ok /\ ArrayTry.ok)
             => (~r.threw /\ r.value = AsArray(ArrayTry.v))
        /\ r.threw <=> (~DirectTry.ok /\ ~ObjectTry.ok /\ ~ArrayTry.ok)
        /\ r.threw => r.message = "Invalid JSON after all extraction attempts"
C18_Witness ==
  /\ ParseReturned
  /\ call.text = "{bad} [1, 2]"
  /\ result.value.steps = <<"direct", "object", "array">>
  /\ result.value.value = JsonArray(<<JsonNumber(1, <<>>), JsonNumber(2, <<>>)>>)
C18_ObjectBeforeArrayWitness ==
  /\ ParseReturned
  /\ call.text = "[1] {\"a\": 1}"
  /\ result.value.steps = <<"direct", "object">>
  /\ result.value.value.t = "object"
C18_ThrowWitness ==
  /\ ParseReturned
  /\ call.text = "Answer: {bad} extra noise"
  /\ result.value.threw
  /\ result.value.steps = <<"direct", "object">>

\* C19: cleanJsonText is idempotent: cleaning its own output changes nothing.
C19_CleanupIsIdempotent ==
  (call.fn = "cleanJsonText" /\ Len(log) >= 2) => log[2] = log[1]

\* C20: cleanJsonText keeps the value of a valid JSON object or array text,
\* and a valid object embedded in noise is decoded to that object.
C20_CleanupKeepsValidJson ==
  /\ (call.fn = "cleanJsonText" /\ call.shape.core.valid /\ Bare /\ Len(log) >= 1)
       => JsonParse(log[1]) = [ok |-> TRUE, v |-> call.shape.core.value]
  /\ (ParseReturned /\ call.shape.core.valid /\ call.shape.core.value.t = "object")
       => (~result.value.threw /\ result.value.value = call.shape.core.value)

\* C21: for an object text whose value is a bare phrase of several words,
\* parseJsonWithResilience returns the object whose value is the whole
\* phrase as one string.
C21_BarePhraseKeptWhole ==
  (ParseReturned /\ call.shape.core \in PhraseCores) =>
    /\ ~result.value.threw
    /\ result.value.value = call.shape.core.value

\* C22: for a valid JSON object or array text with a trailing comma
\* (optionally followed by whitespace) put before a closer,
\* parseJsonWithResilience returns the value of the text without the comma.
C22_TrailingCommaRemoved ==
  (ParseReturned /\ call.shape.core \in CommaCores) =>
    /\ ~result.value.threw
    /\ result.value.value = call.shape.core.value

\* C23: when the direct parse fails and the text holds both "<think>" and
\* "</think>", the spans are looked for only in the text after the last
\* "</think>", so JSON inside or before the thinking block is never
\* returned; when a marker is missing the spans are looked for in the whole
\* text.
ThinkJson == JsonObject(<<JsonMember(<<"t">>, JsonNumber(1, <<>>))>>)
ThinkingClosed == call.shape.prefix \in ClosedThinkPrefixes \cup {"<think>{x}</think> "}
AfterThinking ==
  IF ThinkingClosed THEN Trim(call.shape.core.text \o call.shape.suffix)
  ELSE call.text
C23_ExtractionAfterThinking ==
  (ParseReturned /\ ~DirectTry.ok) =>
    /\ result.value = FirstSuccess(DirectTry, SpanAttempt(AfterThinking, ObjectSpan),
                                   SpanAttempt(AfterThinking, ArraySpan))
    /\ (ThinkingClosed /\ ~result.value.threw) => result.value.value # ThinkJson
C23_Witness ==
  /\ ParseReturned
  /\ call.text = "<think>a</think> {\"t\": 1}</think> no json here"
  /\ result.value.threw
  /\ result.value.steps = <<"direct">>
C23_NothingStrippedWitness ==
  /\ ParseReturned
  /\ call.text = "<think>{\"t\": 1} no json here"
  /\ result.value.value = ThinkJson
C23_AfterBlockWitness ==
  /\ ParseReturned
  /\ call.text = "<think>{\"t\": 1}</think> {\"a\": 1,}"
  /\ result.value.value = JsonObject(<<JsonMember(<<"a">>, JsonNumber(1, <<>>))>>)

\* C24: whenever the candidate given to fixArrayElementSeparation has more
\* "{" than "}", the missing number of "}" is appended at its end, so that
\* the output has as many "}" as "{", also when the candidate already has
\* some "}".
CountChar(s, c) == Cardinality({i \in 1..Len(s) : CharAt(s, i) = c})
MissingBraces(s) == CountChar(s, "{") - CountChar(s, "}")
C24_MissingBracesAppended ==
  (/\ call.fn = "fixArrayElementSeparation"
   /\ result.kind = "returned"
   /\ MissingBraces(call.text) > 0) =>
    /\ MissingBraces(result.value) = 0
    /\ EndsWith(result.value, Repeat("}", MissingBraces(call.text)))

\* C25: fixEscapeCharacterIssues doubles a single backslash that stands
\* before a letter or digit that is no JSON escape character: the output has
\* exactly two backslashes before that character.
JsonEscapeChars == {"\"", Backslash, "/", "b", "f", "n", "r", "t", "u"}
C25_BadEscapeDoubled ==
  (/\ call.fn = "fixEscapeCharacterIssues"
   /\ result.kind = "returned"
   /\ CharAt(call.shape.core.text, 2) \in (Letters \cup Digits) \ JsonEscapeChars) =>
    result.value = call.shape.prefix \o Backslash \o call.shape.core.text
                     \o call.shape.suffix

\* C26: an output of sanitizeResponse that starts with "{" ends with "}",
\* and one that starts with "[" ends with "]"; the closer is appended
\* exactly when the cleaned text starts with the opener and does not end
\* with its pair, and nothing else is repaired.
SanitizeReturned == call.fn = "sanitizeResponse" /\ result.kind = "returned"
Cleaned == RemoveProblemPatterns(call.text)
C26_LeadingOpenerClosed ==
  SanitizeReturned =>
    /\ StartsAt(result.value, "{", 1) => EndsWith(result.value, "}")
    /\ StartsAt(result.value, "[", 1) => EndsWith(result.value, "]")
    /\ result.value =
         IF StartsAt(Cleaned, "{", 1) /\ ~EndsWith(Cleaned, "}") THEN Cleaned \o "}"
         ELSE IF StartsAt(Cleaned, "[", 1) /\ ~EndsWith(Cleaned, "]")
         THEN Cleaned \o "]"
         ELSE Cleaned
C26_Witness ==
  /\ SanitizeReturned
  /\ call.text = "{\"a\": [1"
  /\ result.value = "{\"a\": [1}"
C26_BracketWitness ==
  /\ SanitizeReturned
  /\ call.text = "[1, 2] ... ."
  /\ result.value = "[1, 2] ]"
C26_UntouchedWitness ==
  /\ SanitizeReturned
  /\ call.text = "see {\"a\": 1"
  /\ result.value = call.text

(***************************************************************************)
(* Termination of generateWithCompletion.  The timers of setTimeout fire,  *)
(* the activations resume when what they await has settled, and a          *)
(* generateFn that is not slow settles before its timer; a slow one may    *)
(* never settle.  ResumeContinuation is enabled exactly when               *)
(* ContinuationSettled holds, and its weak fairness is written out with    *)
(* that state predicate in place of ENABLED.                               *)
(***************************************************************************)
GenSettlesInTime == ~call.generateFn.slow /\ (GenResolves \/ GenRejects)

LiveSpec ==
  /\ Spec
  /\ WF_vars(Call)
  /\ WF_vars(GenSettlesInTime)
  /\ WF_vars(TimerFires)
  /\ WF_vars(DelayElapses)
  /\ ([]<>~ContinuationSettled \/ []<><<ResumeContinuation>>_vars)
  /\ WF_vars(ResumeRetry)
  /\ WF_vars(Finish)

\* C27: every top-level call settles, after at most 2^maxRetries - 1
\* invocations of generateFn, whatever generateFn does.
C27_CallTerminates ==
  /\ <>Finished
  /\ [](Len(log) <= 2^maxRetries - 1)
C27_Witness ==
  /\ Finished
  /\ call.generateFn.slow
  /\ Len(log) = maxRetries
  /\ \A i \in Calls : log[i].outcome = "timedOut"
C27_MostInvocationsWitness ==
  /\ Finished
  /\ maxRetries = 3
  /\ Len(log) = 7

(***************************************************************************)
(* A continuation that fails.                                              *)
(***************************************************************************)
\* the continuation of the innermost activation, which holds a text with an
\* issue, has thrown
ContinuationFailed == ContinuationSettled /\ signal.kind = "error"
\* the activation caught the error of its continuation and retries
RetriesAfterContinuation(f) == f.text # "" /\ f.pc \in {"delay", "retry"}
\* the prompts the catch block derives from the activation's prompt
RetryPrompts(prompt) ==
  {createSimplifiedPrompt(prompt), prompt, ShorterPrompt(prompt)}

\* C28: the error of a failed continuation is handled by the catch block of
\* the activation that awaited it: the activation rethrows it, or, for a
\* retryable error with attempt < maxRetries, it retries with a prompt
\* derived from its own prompt alone and hands on what the retry gives,
\* unmerged; its partial text is in neither.
C28_ContinuationFailureCaught ==
  /\ [][ContinuationFailed =>
          IF Retryable(signal.error) /\ Top.attempt < maxRetries
          THEN /\ Len(frames') = Len(frames)
               /\ RetriesAfterContinuation(frames'[Len(frames)])
               /\ frames'[Len(frames)].next \in RetryPrompts(Top.prompt)
               /\ signal' = NoSignal
          ELSE /\ frames' = Pop
               /\ signal' = signal]_vars
  /\ [](\A k \in 1..Len(frames) - 1 :
          RetriesAfterContinuation(frames[k]) /\ frames[k].pc = "retry" =>
            /\ frames[k].next \in RetryPrompts(frames[k].prompt)
            /\ log[frames[k + 1].call].prompt = frames[k].next
            /\ log[frames[k + 1].call].attempt = frames[k].attempt + 1)
  /\ [][frames # <<>> /\ RetriesAfterContinuation(Top) /\ signal.kind # "none" =>
          frames' = Pop /\ signal' = signal]_vars
  /\ [][frames = <<>> /\ signal.kind # "none" => result' = signal]_vars

C28_Witness ==
  /\ Len(frames) = 1
  /\ RetriesAfterContinuation(Top)
  /\ Top.pc = "retry"
  /\ signal.kind = "value"
  /\ signal.text = CompleteText
  /\ Top.text = IncompleteText
C28_RethrownWitness ==
  /\ Finished
  /\ result.kind = "error"
  /\ log[1].outcome = "resolved"
  /\ log[1].text = IncompleteText
  /\ Len(log) > 1
C28_NestedWitness ==
  /\ Len(frames) = 2
  /\ RetriesAfterContinuation(Top)
  /\ Top.pc = "retry"
  /\ signal.kind = "value"

(***************************************************************************)
(* Long responses that do not end a sentence.                              *)
(***************************************************************************)
\* more than 100 characters, the last one that is not white space is none
\* of . ! ?
EndsAbruptly(text) ==
  /\ Len(text) > 100
  /\ Trim(text) # ""
  /\ CharAt(Trim(text), Len(Trim(text))) \notin {".", "!", "?"}

\* C29: a response of more than 100 characters whose last character that is
\* not white space is none of . ! ? has an issue, a complete JSON object or
\* array too: at attempt < maxRetries the next invocation is its
\* continuation, and when that returns the activation returns the merge of
\* the two texts.
C29_LongResponseContinued ==
  /\ [](\A i \in Calls :
          (/\ log[i].outcome = "resolved"
           /\ EndsAbruptly(log[i].text)
           /\ log[i].attempt < maxRetries) =>
            /\ detectResponseIssues(log[i].text).hasIssue
            /\ Len(log) > i
            /\ log[i + 1].attempt = log[i].attempt + 1
            /\ log[i + 1].prompt
                 = log[i].prompt \o "\n\nPrevious partial response:\n"
                     \o log[i].text \o "\n\n" \o continuationPrompt)
  /\ [](\A k \in 1..Len(frames) :
          (/\ log[frames[k].call].outcome = "resolved"
           /\ EndsAbruptly(log[frames[k].call].text)
           /\ frames[k].attempt < maxRetries) =>
            frames[k].text = log[frames[k].call].text)
  /\ [][(/\ ContinuationSettled
          /\ signal.kind = "value"
          /\ EndsAbruptly(Top.text)) =>
           /\ frames' = Pop
           /\ signal'
                = ValueSignal(combinePartialResponses(Top.text, signal.text))]_vars
C29_Witness ==
  /\ Finished
  /\ Len(log) = 2
  /\ log[1].text = LongJsonText
  /\ log[2].text = CompleteText
  /\ result.kind = "value"
  /\ result.text = SubSeq(LongJsonText, 1, 112) \o "\n\nDone."
C29_ArrayWitness ==
  /\ Finished
  /\ Len(log) = 2
  /\ log[1].text = LongArrayText
  /\ log[2].text = LongSentence
  /\ result.kind = "value"
  /\ result.text # log[1].text
  /\ result.text = combinePartialResponses(LongArrayText, LongSentence)
C29_SentenceWitness ==
  /\ Finished
  /\ Len(log) = 1
  /\ log[1].text = LongSentence
  /\ maxRetries = 3
  /\ result.text = LongSentence

(***************************************************************************)
(* Simplifying a prompt twice.                                             *)
(***************************************************************************)
\* the query after the marker of the caller's prompt
UserQuery == IF call.prompt = ShortPrompt THEN "what do cats eat" ELSE "why"
SimplifiedTail ==
  "\n\nProvide a direct, simple answer with key facts only."
    \o "\nNo thinking, no analysis, just the facts."
GenericPrompt ==
  "Extract information to answer: Please extract relevant information"
    \o SimplifiedTail
InvalidJsonRejection(i) ==
  /\ log[i].outcome = "rejected"
  /\ log[i].error.isError
  /\ log[i].error.message
       \in {"Invalid JSON response from model", "Ollama API rejected response"}

\* C30: an activation that catches an invalid-JSON or rejected-response
\* error at attempt < maxRetries retries with createSimplifiedPrompt(prompt).
\* When the first two invocations fail so, the second prompt holds the query
\* of the caller's prompt, and the third is the generic prompt, without it.
C30_SecondSimplificationLosesQuery ==
  /\ \A k \in 1..Len(frames) :
       (frames[k].pc \in {"delay", "retry"} /\ IsInvalidJsonError(frames[k].caught))
         => /\ frames[k].attempt < maxRetries
            /\ frames[k].next = createSimplifiedPrompt(frames[k].prompt)
  /\ (Len(log) >= 2 /\ InvalidJsonRejection(1)) =>
       /\ log[2].attempt = 2
       /\ log[2].prompt
            = "Extract information to answer: " \o UserQuery \o SimplifiedTail
  /\ (Len(log) >= 3 /\ InvalidJsonRejection(1) /\ InvalidJsonRejection(2)) =>
       /\ log[3].attempt = 3
       /\ log[3].prompt = GenericPrompt
       /\ ~Includes(log[3].prompt, UserQuery)
       /\ log[3].prompt = createSimplifiedPrompt(createSimplifiedPrompt(call.prompt))
       /\ log[3].prompt # log[2].prompt
C30_Witness ==
  /\ Len(log) = 3
  /\ InvalidJsonRejection(1)
  /\ InvalidJsonRejection(2)
  /\ call.prompt = ShortPrompt
  /\ Includes(log[2].prompt, "what do cats eat")
  /\ log[3].prompt = GenericPrompt
C30_LongPromptWitness ==
  /\ Len(log) = 3
  /\ InvalidJsonRejection(1)
  /\ InvalidJsonRejection(2)
  /\ call.prompt = LongPrompt
  /\ Includes(log[2].prompt, "answer: why\n")
  /\ log[3].prompt = GenericPrompt

(***************************************************************************)
(* Options given as 0.                                                     *)
(***************************************************************************)
\* C31: an option given as 0 counts as absent.  With maxRetries 0 the
\* attempts go up to 3 as with maxRetries 3: a generateFn that always
\* rejects with a timeout error is invoked exactly 3 times, and a text with
\* an issue at attempt 1 or 2 is continued.  With timeout 0 every timer is
\* set to 600000 ms.
C31_ZeroOptionIsAbsent ==
  /\ call.maxRetries = Given(0) =>
       /\ \A i \in Calls : log[i].attempt <= 3
       /\ (Finished /\ call.generateFn = TimingOut) => Len(log) = 3
       /\ \A i \in Calls :
            (/\ log[i].outcome = "resolved"
             /\ log[i].text = IncompleteText
             /\ log[i].attempt < 3) =>
              /\ Len(log) > i
              /\ log[i + 1].attempt = log[i].attempt + 1
  /\ call.timeout = Given(0) => \A i \in Calls : log[i].timer = 600000
  /\ call.timeout = Given(30000) => \A i \in Calls : log[i].timer = 30000
C31_Witness ==
  /\ call.maxRetries = Given(0)
  /\ Finished
  /\ Len(log) = 3
  /\ \A i \in Calls : log[i].attempt = i /\ log[i].outcome = "rejected"
C31_TimeoutWitness ==
  /\ call.timeout = Given(0)
  /\ Len(log) = 2
  /\ log[1].outcome = "timedOut"
  /\ log[2].timer = 600000
C31_ContinuedWitness ==
  /\ call.maxRetries = Given(0)
  /\ Len(log) = 3
  /\ log[2].text = IncompleteText
  /\ log[3].attempt = 3

(***************************************************************************)
(* The object span inside an array                                         *)
(***************************************************************************)
\* String.prototype.indexOf, counted from 1 (0 if absent)
IndexOf(s, sub) ==
  LET hits == {i \in 1..(Len(s) - Len(sub) + 1) : StartsAt(s, sub, i)}
  IN  IF hits = {} THEN 0 ELSE SetMin(hits)
\* the strict parse of the text between the first opening brace and the
\* last closing brace of the stripped text, untouched by the cleanup
InnerObjectTry ==
  LET cleanText == StripThinking(call.text)
      first == IndexOf(cleanText, "{")
      last == LastIndexOf(cleanText, "}")
  IN  IF first > 0 /\ last > first
      THEN JsonParse(SubSeq(cleanText, first, last))
      ELSE [ok |-> FALSE, v |-> JsonNull]
ArrayAroundObject ==
  /\ ParseReturned
  /\ ~DirectTry.ok
  /\ call.shape.core.valid
  /\ call.shape.core.value.t = "array"
  /\ InnerObjectTry.ok
  /\ InnerObjectTry.v.t = "object"

\* C32: for a text that is not valid JSON and holds an array whose content
\* from its first opening brace to its last closing brace is one parseable
\* object, parseJsonWithResilience returns that object, not the array, and
\* the array span is never tried.
C32_InnerObjectReturned ==
  ArrayAroundObject =>
    /\ ~result.value.threw
    /\ result.value.value = InnerObjectTry.v
    /\ result.value.steps = <<"direct", "object">>
\* the part of C32 that is about the order alone: the object span is the
\* strategy that answers and the array span is not tried
C32_ObjectSpanAnswers ==
  ArrayAroundObject =>
    /\ ~result.value.threw
    /\ result.value.value.t = "object"
    /\ result.value.steps = <<"direct", "object">>
C32_ExampleReached ==
  /\ ArrayAroundObject
  /\ call.text = "Answer: [{\"a\": 1}]"
  /\ result.value.value = JsonObject(<<JsonMember(<<"a">>, JsonNumber(1, <<>>))>>)
  /\ result.value.steps = <<"direct", "object">>

(***************************************************************************)
(* EmbeddingService (src/src/lib/EmbeddingService.ts).  A load is one call *)
(* of pipeline() made by performImmediateInitialization; its promise is    *)
(* named by the load's index in loads.  The model a load yields is named   *)
(* by the same index.  Every await is a separate step: the code after the  *)
(* await of line 98 runs in LoadCompletes or LoadFails, the finally block  *)
(* of init in InitResumes.  onProgress only observes.                      *)
(***************************************************************************)
MaxLoads == 3
MaxInits == 4
MaxDestroys == 2
MaxEmbedCalls == 1

NoCall == [fn |-> "none", text |-> "", second |-> ""]
CompletionIdle ==
  /\ call = NoCall
  /\ frames = <<>>
  /\ signal = NoSignal
  /\ result = NoSignal
  /\ timers = <<>>
  /\ lateGens = {}
  /\ log = <<>>

Pending(l) == loads[l].state = "pending"
PendingLoads == {l \in 1..Len(loads) : Pending(l)}
\* what a promise that follows the load l settles to
Outcome(l) == IF loads[l].state = "fulfilled" THEN "resolved" ELSE "rejected"

\* get available, lines 261-263
available(s) == s.isInitialized /\ s.model # Null
\* get status, lines 265-269
status(s) ==
  IF s.isInitialized THEN "ready"
  ELSE IF s.isInitializing THEN "initializing"
  ELSE "uninitialized"

\* mutant of InitJoins: a call made during initialization starts a load of
\* its own
InitNeverJoins(s) == FALSE
\* mutant of InitJoins: any promise left in the field is returned
InitJoinsStalePromise(s) == s.initializationPromise # Null
\* the condition of line 52
InitJoins(s) == s.isInitializing /\ s.initializationPromise # Null

InitCaller(path, l) ==
  [path |-> path, load |-> l, state |-> IF path = "immediate" THEN "resolved" ELSE "awaiting",
   epoch |-> client.destroys]

\* init(), lines 45-61, up to its await
InitCall ==
  /\ Len(callers) < MaxInits
  /\ IF service.isInitialized
     THEN /\ callers' = Append(callers, InitCaller("immediate", Null))
          /\ UNCHANGED <<service, loads>>
     ELSE IF InitJoins(service)
     THEN /\ callers' = Append(callers, InitCaller("waiter", service.initializationPromise))
          /\ UNCHANGED <<service, loads>>
     ELSE /\ Len(loads) < MaxLoads
          /\ loads' = Append(loads, [state |-> "pending", epoch |-> client.destroys,
                                     settled |-> Null])
          /\ service' = [service EXCEPT !.isInitializing = TRUE,
                                        !.initializationPromise = Len(loads) + 1]
          /\ callers' = Append(callers, InitCaller("starter", Len(loads) + 1))
  /\ UNCHANGED <<completionVars, hookVars, client, batch>>

Settle(l, state) ==
  [loads EXCEPT ![l] = [@ EXCEPT !.state = state, !.settled = client.destroys + 1]]

\* pipeline() resolves: lines 98-155
LoadCompletes ==
  \E l \in PendingLoads :
    /\ service' = [service EXCEPT !.model = l, !.isInitialized = TRUE]
    /\ loads' = Settle(l, "fulfilled")
    /\ UNCHANGED <<completionVars, hookVars, callers, client, batch>>

\* mutant of FailedLoadState: the catch block forgets the flag
FailedLoadKeepsFlag(s) == [s EXCEPT !.model = Null]
\* the catch block of lines 158-163
FailedLoadState(s) == [s EXCEPT !.isInitialized = FALSE, !.model = Null]

\* pipeline() rejects
LoadFails ==
  \E l \in PendingLoads :
    /\ service' = FailedLoadState(service)
    /\ loads' = Settle(l, "rejected")
    /\ UNCHANGED <<completionVars, hookVars, callers, client, batch>>

Awaiting(c) == callers[c].state = "awaiting" /\ ~Pending(callers[c].load)

\* the starting call resumes after the await of line 61: the finally block
\* of lines 62-64, then the outcome of the load
InitResumes ==
  \E c \in 1..Len(callers) :
    /\ callers[c].path = "starter"
    /\ Awaiting(c)
    /\ service' = [service EXCEPT !.isInitializing = FALSE]
    /\ callers' = [callers EXCEPT ![c].state = Outcome(callers[c].load)]
    /\ UNCHANGED <<completionVars, hookVars, loads, client, batch>>

\* a call that returned the pending promise (line 53) settles as it does
WaiterSettles ==
  \E c \in 1..Len(callers) :
    /\ callers[c].path = "waiter"
    /\ Awaiting(c)
    /\ callers' = [callers EXCEPT ![c].state = Outcome(callers[c].load)]
    /\ UNCHANGED <<completionVars, hookVars, service, loads, client, batch>>

\* mutant of DestroyedLoads: destroy() cancels the loads in flight
DestroyCancelsLoads(ls) ==
  [l \in 1..Len(ls) |->
     IF ls[l].state = "pending"
     THEN [ls[l] EXCEPT !.state = "rejected", !.settled = client.destroys + 1]
     ELSE ls[l]]
\* destroy() leaves the loads alone
DestroyedLoads(ls) == ls

\* destroy(), lines 271-276
Destroy ==
  /\ client.destroys < MaxDestroys
  /\ service' = [model |-> Null, isInitialized |-> FALSE, isInitializing |-> FALSE,
                 initializationPromise |-> Null]
  /\ loads' = DestroyedLoads(loads)
  /\ client' = [client EXCEPT !.destroys = @ + 1]
  /\ UNCHANGED <<completionVars, hookVars, callers, batch>>

\* the guards of generateEmbedding, lines 168-174
EmbeddingGuard(s) ==
  IF ~s.isInitialized THEN "EmbeddingService not initialized. Call init() first."
  ELSE IF s.model = Null THEN "EmbeddingService model not loaded."
  ELSE ""

\* generateEmbedding(text) up to the await of line 182
GenerateEmbedding ==
  /\ Len(client.embedded) < MaxEmbedCalls
  /\ client' = [client EXCEPT !.embedded = Append(@, EmbeddingGuard(service))]
  /\ UNCHANGED <<completionVars, hookVars, service, loads, callers, batch>>

EmbedInit ==
  /\ CompletionIdle
  /\ EmbedIdle
  /\ HookIdle

EmbedNext ==
  \/ InitCall
  \/ LoadCompletes
  \/ LoadFails
  \/ InitResumes
  \/ WaiterSettles
  \/ Destroy
  \/ GenerateEmbedding

EmbedSpec == EmbedInit /\ [][EmbedNext]_vars

EmbedTypeOK ==
  /\ service.model \in 0..MaxLoads
  /\ service.initializationPromise \in 0..MaxLoads
  /\ Len(loads) <= MaxLoads
  /\ Len(callers) <= MaxInits

InitCalled == Len(callers') = Len(callers) + 1
NewCaller == callers'[Len(callers')]

\* C33: as long as destroy() is not called, at most one load is in flight;
\* an init() call made while a load is pending starts no load and settles
\* with the outcome of the pending one; an init() call made after a
\* successful initialization returns at once and starts no load.
C33_SingleLoadInFlight ==
  /\ [](client.destroys = 0 =>
          /\ Cardinality(PendingLoads) <= 1
          /\ \A c \in 1..Len(callers) :
               /\ callers[c].path # "immediate" /\ callers[c].state # "awaiting"
                    => /\ ~Pending(callers[c].load)
                       /\ callers[c].state = Outcome(callers[c].load)
               /\ callers[c].path = "immediate" => callers[c].state = "resolved")
  /\ [][(client.destroys = 0 /\ InitCalled) =>
          /\ PendingLoads # {} =>
               /\ loads' = loads
               /\ NewCaller.load \in PendingLoads
               /\ NewCaller.state = "awaiting"
          /\ service.isInitialized =>
               /\ loads' = loads
               /\ NewCaller.state = "resolved"]_vars
\* two calls joined the pending load and settled with its outcome
C33_Witness ==
  /\ client.destroys = 0
  /\ Len(loads) = 1
  /\ Len(callers) >= 3
  /\ callers[2].path = "waiter" /\ callers[2].state = "rejected"
  /\ callers[3].path = "waiter" /\ callers[3].state = "rejected"
C33_ImmediateWitness ==
  /\ client.destroys = 0
  /\ Len(loads) = 1
  /\ \E c \in 1..Len(callers) : callers[c].path = "immediate"
  /\ \E c \in 1..Len(callers) : callers[c].path = "waiter" /\ callers[c].state = "resolved"

Destroyed == client'.destroys = client.destroys + 1
CompletedNow(l) == Pending(l) /\ loads'[l].state = "fulfilled"
\* nothing happened to the service since the last destroy()
QuietSinceDestroy ==
  /\ client.destroys > 0
  /\ \A c \in 1..Len(callers) : callers[c].epoch < client.destroys
  /\ \A l \in 1..Len(loads) : loads[l].settled <= client.destroys

\* C34: destroy() does not cancel a load in flight: a load that was pending
\* when destroy() was called stores its model and makes the status 'ready'
\* when it completes, also when no init() was called after destroy(); and
\* an init() called after destroy() while the old load is pending starts a
\* second load next to it.
C34_DestroyDoesNotCancel ==
  /\ [][Destroyed => loads' = loads]_vars
  /\ [][\A l \in 1..Len(loads) :
          (CompletedNow(l) /\ loads[l].epoch < client.destroys) =>
            /\ service'.model = l
            /\ status(service') = "ready"
            /\ available(service')]_vars
  /\ [][(InitCalled /\ QuietSinceDestroy /\ PendingLoads # {}) =>
          /\ Len(loads') = Len(loads) + 1
          /\ PendingLoads \subseteq {l \in 1..Len(loads') : loads'[l].state = "pending"}
          /\ loads'[Len(loads')].state = "pending"
          /\ NewCaller.load = Len(loads')]_vars
\* ready after destroy() without any init() since
C34_Witness ==
  /\ client.destroys = 1
  /\ Len(callers) = 1 /\ callers[1].epoch = 0
  /\ loads[1].epoch = 0 /\ loads[1].settled = 2
  /\ service.model = 1
  /\ status(service) = "ready"
\* the old load and the load of the init() after destroy(), both pending
C34_ConcurrentLoadsWitness ==
  /\ client.destroys = 1
  /\ Len(loads) = 2
  /\ loads[1].epoch = 0 /\ Pending(1)
  /\ loads[2].epoch = 1 /\ Pending(2)

\* C35: in every reachable state of the service, under any interleaving of
\* init(), generateEmbedding(), failing loads and destroy(), isInitialized
\* implies that model is not null; so the status is 'ready' exactly when
\* available is true, and the status is never 'error'.
C35_InitializedHasModel ==
  /\ service.isInitialized => service.model # Null
  /\ status(service) = "ready" <=> available(service)
  /\ status(service) \in {"ready", "initializing", "uninitialized"}
  /\ \A k \in 1..Len(client.embedded) :
       client.embedded[k] # "EmbeddingService model not loaded."
\* ready after a failed load, a completed load and a destroy(), with an
\* embedding generated
C35_Witness ==
  /\ client.destroys >= 1
  /\ \E l \in 1..Len(loads) : loads[l].state = "rejected"
  /\ \E l \in 1..Len(loads) : loads[l].state = "fulfilled"
  /\ PendingLoads # {}
  /\ status(service) = "ready"
  /\ client.embedded = <<"">>
\* a load failed after another one had made the service ready
C35_FailureAfterReadyWitness ==
  /\ Len(loads) >= 2
  /\ loads[2].state = "fulfilled" /\ loads[2].settled = 2
  /\ loads[1].state = "rejected" /\ loads[1].settled = 2
  /\ \A c \in 1..Len(callers) : callers[c].state # "awaiting"
  /\ status(service) = "uninitialized"

LoadFailed(l) == loads[l].state = "rejected"
\* the call that started the load l
Starter(l) == CHOOSE c \in 1..Len(callers) : callers[c].path = "starter" /\ callers[c].load = l
\* the starting call of the load l settles in this step
StarterSettles(l) ==
  /\ callers[Starter(l)].state = "awaiting"
  /\ callers'[Starter(l)].state # "awaiting"

\* the error reached every call that awaited a failed load
Rethrown ==
  \A c \in 1..Len(callers) :
    (callers[c].path # "immediate" /\ LoadFailed(callers[c].load)
       /\ callers[c].state # "awaiting") => callers[c].state = "rejected"
\* the starting call of a failed load settles and leaves the service
\* uninitialized
LeftUninitialized ==
  \A l \in 1..Len(loads) :
    (LoadFailed(l) /\ StarterSettles(l)) =>
      /\ ~service'.isInitialized
      /\ service'.model = Null
      /\ ~service'.isInitializing
      /\ status(service') = "uninitialized"
\* an init() call made after the starting call of a failed load was
\* rejected, the promise of that load still in the field, starts a load
FreshLoad ==
  \A l \in 1..Len(loads) :
    (LoadFailed(l) /\ callers[Starter(l)].state = "rejected" /\ InitCalled
       /\ service.initializationPromise = l) =>
      /\ Len(loads') = Len(loads) + 1
      /\ NewCaller.path = "starter"
      /\ NewCaller.load = Len(loads')
      /\ NewCaller.state = "awaiting"

\* C36 as stated, for every interleaving: a failed load is rethrown to every
\* caller awaiting it, leaves the service uninitialized, and a later init()
\* starts a fresh load.
C36_FailedLoadRecoversAlways ==
  /\ []Rethrown
  /\ [][LeftUninitialized]_vars
  /\ [][FreshLoad]_vars
\* C36: as long as destroy() is not called, a failed load is rethrown to
\* every caller awaiting that initialization, the service is left with
\* isInitialized = false, model = null and isInitializing = false (status
\* 'uninitialized'), and a later init() call starts a fresh load instead of
\* returning the stale rejected promise.
C36_FailedLoadRecovers ==
  /\ [](client.destroys = 0 => Rethrown)
  /\ [][client.destroys = 0 => LeftUninitialized]_vars
  /\ [][client.destroys = 0 => FreshLoad]_vars
\* a load failed under two callers, both were rejected, and the next init()
\* started a second load
C36_Witness ==
  /\ client.destroys = 0
  /\ Len(loads) = 2 /\ LoadFailed(1) /\ Pending(2)
  /\ Len(callers) = 3
  /\ callers[1].state = "rejected" /\ callers[1].path = "starter"
  /\ callers[2].state = "rejected" /\ callers[2].path = "waiter"
  /\ callers[3].path = "starter" /\ callers[3].load = 2
  /\ service.initializationPromise = 2
\* the service right after the failed init() settled
C36_UninitializedWitness ==
  /\ client.destroys = 0
  /\ Len(loads) = 1 /\ LoadFailed(1)
  /\ callers[1].state = "rejected"
  /\ service = [NewService EXCEPT !.initializationPromise = 1]
  /\ status(service) = "uninitialized"

(***************************************************************************)
(* generateEmbeddings (EmbeddingService.ts lines 202-259).  A text is      *)
(* named by its position; the model yields a vector of its dimension that  *)
(* holds no zero.  batch.events lists, in order, the calls of the model,   *)
(* the pushes to embeddings and the calls of onProgress.                   *)
(***************************************************************************)
MaxTexts == 3
DefaultDimension == 384
ModelDimensions == {3, DefaultDimension}

\* Array.from(output.data), line 188
Embedding(k, dim) == [j \in 1..dim |-> k]
\* new Array(dimension).fill(0), line 241
ZeroVector(dim) == [j \in 1..dim |-> 0]

\* mutant of FallbackDimension: the fallback vector always has 384 entries
FallbackDimensionFixed(embeddings) == DefaultDimension
\* line 240
FallbackDimension(embeddings) ==
  IF Len(embeddings) > 0 THEN Len(embeddings[1]) ELSE DefaultDimension

Event(kind, b) ==
  [kind |-> kind, text |-> b.i + 1, total |-> b.total, have |-> Len(b.embeddings)]

\* embeddings.push(v), then onProgress?.(i + 1, texts.length), then the
\* await of the frame: lines 222-235 and 241-251
Pushed(b, v, failed) ==
  LET pushed == [b EXCEPT !.embeddings = Append(@, v),
                          !.events = Append(@, Event("push", b)),
                          !.failed = IF failed THEN @ \cup {b.i + 1} ELSE @]
  IN  [pushed EXCEPT !.events = Append(@, Event("onProgress", pushed)), !.pc = "yield"]
\* the catch block of lines 237-252
Caught(b) == Pushed(b, ZeroVector(FallbackDimension(b.embeddings)), TRUE)

\* the loop from its test at line 216 to the next await: the guards of
\* generateEmbedding throw into the catch block, otherwise the model is
\* called (line 182)
Iterate(b, s) ==
  IF b.i >= b.total THEN [b EXCEPT !.pc = "returned"]
  ELSE IF EmbeddingGuard(s) # "" THEN Caught(b)
  ELSE [b EXCEPT !.pc = "model", !.events = Append(@, Event("model", b))]

\* generateEmbeddings(texts, onProgress) up to its first await
GenerateEmbeddings ==
  /\ batch.pc = "idle"
  /\ \E total \in 0..MaxTexts, dim \in ModelDimensions :
       batch' = IF EmbeddingGuard(service) # ""
                THEN [pc |-> "threw", message |-> EmbeddingGuard(service)]
                ELSE Iterate([pc |-> "loop", total |-> total, dim |-> dim, i |-> 0,
                              embeddings |-> <<>>, events |-> <<>>, failed |-> {}],
                             service)
  /\ UNCHANGED <<completionVars, hookVars, service, loads, callers, client>>

\* this.model(text, ...) resolves: lines 188-193, then 222-235
ModelResolves ==
  /\ batch.pc = "model"
  /\ batch' = Pushed(batch, Embedding(batch.i + 1, batch.dim), FALSE)
  /\ UNCHANGED <<completionVars, hookVars, service, loads, callers, client>>

\* this.model(text, ...) rejects: lines 195-199, then the catch block
ModelRejects ==
  /\ batch.pc = "model"
  /\ batch' = Caught(batch)
  /\ UNCHANGED <<completionVars, hookVars, service, loads, callers, client>>

\* the frame and the 20 ms of lines 231-235 or 247-251 are over
YieldElapses ==
  /\ batch.pc = "yield"
  /\ batch' = Iterate([batch EXCEPT !.i = @ + 1], service)
  /\ UNCHANGED <<completionVars, hookVars, service, loads, callers, client>>

\* the service after one init() that succeeded
ReadyService ==
  [model |-> 1, isInitialized |-> TRUE, isInitializing |-> FALSE,
   initializationPromise |-> 1]

BatchInit ==
  /\ CompletionIdle
  /\ HookIdle
  /\ client = NoClient
  /\ batch = NoBatch
  /\ \/ /\ service = NewService
        /\ loads = <<>>
        /\ callers = <<>>
     \/ /\ service = ReadyService
        /\ loads = <<[state |-> "fulfilled", epoch |-> 0, settled |-> 1]>>
        /\ callers = <<[path |-> "starter", load |-> 1, state |-> "resolved", epoch |-> 0]>>

BatchNext ==
  \/ GenerateEmbeddings
  \/ ModelResolves
  \/ ModelRejects
  \/ YieldElapses
  \/ Destroy

BatchSpec == BatchInit /\ [][BatchNext]_vars

BatchStarted == batch.pc \in {"model", "yield", "returned"}
\* the place of the n-th event in the pattern model, push, onProgress
EventKinds == <<"model", "push", "onProgress">>

\* C37: for an initialized service and an onProgress that does not throw,
\* generateEmbeddings resolves with one vector per text in the order of the
\* texts, the texts being handled strictly one after another; a text whose
\* embedding fails gets a vector of zeros (as long as the first vector of
\* the result, or 384 if it is the first) and the batch goes on; onProgress
\* is called once per text with (i + 1, total), in increasing order, after
\* the vector of that text was appended.
C37_OneVectorPerTextInOrder ==
  BatchStarted =>
    /\ Len(batch.embeddings) <= batch.total
    /\ batch.pc = "returned" => Len(batch.embeddings) = batch.total
    /\ \A k \in 1..Len(batch.embeddings) :
         batch.embeddings[k] =
           IF k \in batch.failed
           THEN ZeroVector(IF k = 1 THEN DefaultDimension ELSE Len(batch.embeddings[1]))
           ELSE Embedding(k, batch.dim)
    /\ LET calls == SelectSeq(batch.events, LAMBDA e : e.kind = "onProgress")
           pushes == SelectSeq(batch.events, LAMBDA e : e.kind = "push")
           models == SelectSeq(batch.events, LAMBDA e : e.kind = "model")
       IN  /\ Len(pushes) = Len(batch.embeddings)
           /\ Len(calls) = Len(batch.embeddings)
           /\ \A n \in 1..Len(calls) :
                /\ calls[n].text = n
                /\ calls[n].total = batch.total
                /\ calls[n].have = n
           /\ \A n \in 1..Len(pushes) : pushes[n].text = n
           \* the model is called for a text only after the vectors of all
           \* earlier texts were appended and reported
           /\ \A n \in 1..Len(models) : models[n].have = models[n].text - 1
    /\ \A n \in 1..Len(batch.events) :
         batch.events[n].kind = "model"
           => /\ n = 1 \/ batch.events[n - 1].kind = "onProgress"
              /\ n < Len(batch.events) => batch.events[n + 1].kind = "push"
    /\ \A n \in 1..Len(batch.events) :
         batch.events[n].kind = "push"
           => /\ n < Len(batch.events)
              /\ batch.events[n + 1].kind = "onProgress"
              /\ batch.events[n + 1].text = batch.events[n].text
\* the second text of three failed and got a zero vector of the model's
\* dimension; the batch returned three vectors
C37_Witness ==
  /\ batch.pc = "returned"
  /\ batch.total = 3
  /\ batch.dim = 3
  /\ batch.failed = {2}
  /\ batch.embeddings = <<Embedding(1, 3), ZeroVector(3), Embedding(3, 3)>>
  /\ client.destroys = 0
\* the first text failed: 384 zeros, and the later fallback follows it
C37_DefaultDimensionWitness ==
  /\ batch.pc = "returned"
  /\ batch.total = 3
  /\ batch.dim = 3
  /\ batch.failed = {1, 3}
  /\ batch.embeddings = <<ZeroVector(DefaultDimension), Embedding(2, 3),
                          ZeroVector(DefaultDimension)>>
\* destroy() during the batch: the remaining texts get zero vectors
C37_DestroyedWitness ==
  /\ batch.pc = "returned"
  /\ batch.total = 2
  /\ client.destroys = 1
  /\ batch.failed = {2}
  /\ Len(SelectSeq(batch.events, LAMBDA e : e.kind = "model")) = 1

(***************************************************************************)
(* The research hook: performIntelligentResearch (responseCompletion.ts    *)
(* lines 1613-1735) and stopResearch (1849-1866).  A run is one call of    *)
(* performIntelligentResearch; its AbortController is named by the run's   *)
(* index in runs.  A setter call writes the state at once.  The            *)
(* orchestrator is not given the signal (line 1666), so its promise        *)
(* settles whether or not the controller was aborted.                      *)
(***************************************************************************)
MaxRuns == 3
Queries == {"", "  ", "cats"}
Answers == {"Cats purr.", "Cats sleep."}
ErrorMessages == {"fetch failed"}

\* lines 1704-1705
FailureText(errorMessage) ==
  "Intelligent research failed: " \o errorMessage
    \o "\n\nPlease check your AI connection and try again."
\* lines 1670-1675
FormattedResult(answer) ==
  [finalAnswer |-> answer, steps |-> <<>>, sources |-> <<>>, confidence |-> 1]

Run(state, writes) ==
  [state |-> state, aborted |-> FALSE, writes |-> writes, writesAtAbort |-> 0]

\* the finally block of lines 1723-1731 for the run r
FinallyBlock(h, r) ==
  [h EXCEPT !.isIntelligentResearching = FALSE, !.isGenerating = FALSE,
            !.isStreaming = FALSE,
            !.abortControllerRef = IF @ = r THEN Null ELSE @]

\* lines 1620-1650: the setters at the start of a run and the controller
Started(h, r) ==
  [h EXCEPT !.results = "", !.researchResult = Absent,
            !.isIntelligentResearching = TRUE, !.isGenerating = TRUE,
            !.isStreaming = TRUE, !.abortControllerRef = r]

\* performIntelligentResearch(query) up to the await of line 1666
PerformIntelligentResearch ==
  /\ Len(runs) < MaxRuns
  /\ \E query \in Queries, isAIReady \in BOOLEAN, researchOrchestrator \in BOOLEAN :
       LET r == Len(runs) + 1
       IN  IF Trim(query) = "" \/ ~isAIReady
           THEN /\ runs' = Append(runs, Run("skipped", 0))
                /\ hook' = hook
           ELSE IF ~researchOrchestrator
           THEN /\ runs' = Append(runs, Run("failed", 3))
                /\ hook' = FinallyBlock(
                             [Started(hook, r) EXCEPT
                                !.results = FailureText("Research orchestrator not available")],
                             r)
           ELSE /\ runs' = Append(runs, Run("awaiting", 2))
                /\ hook' = Started(hook, r)
  /\ UNCHANGED <<completionVars, embedVars>>

AwaitingRuns == {r \in 1..Len(runs) : runs[r].state = "awaiting"}

\* researchOrchestrator.research resolves: lines 1668-1700, then finally;
\* the signal is not read after the await
OrchestratorResolves ==
  \E r \in AwaitingRuns, answer \in Answers :
    /\ runs' = [runs EXCEPT ![r].state = "completed", ![r].writes = @ + 2]
    /\ hook' = FinallyBlock([hook EXCEPT !.researchResult = Given(FormattedResult(answer)),
                                         !.results = answer], r)
    /\ UNCHANGED <<completionVars, embedVars>>

\* researchOrchestrator.research rejects: lines 1702-1722, then finally
OrchestratorRejects ==
  \E r \in AwaitingRuns, errorMessage \in ErrorMessages :
    /\ runs' = [runs EXCEPT ![r].state = "failed", ![r].writes = @ + 1]
    /\ hook' = FinallyBlock([hook EXCEPT !.results = FailureText(errorMessage)], r)
    /\ UNCHANGED <<completionVars, embedVars>>

\* stopResearch, lines 1850-1866
StopResearch ==
  /\ runs' = [r \in 1..Len(runs) |->
                IF r = hook.abortControllerRef /\ ~runs[r].aborted
                THEN [runs[r] EXCEPT !.aborted = TRUE, !.writesAtAbort = runs[r].writes]
                ELSE runs[r]]
  /\ hook' = [hook EXCEPT !.abortControllerRef = Null, !.isGenerating = FALSE,
                          !.isStreaming = FALSE, !.isIntelligentResearching = FALSE]
  /\ UNCHANGED <<completionVars, embedVars>>

HookInit ==
  /\ CompletionIdle
  /\ EmbedIdle
  /\ HookIdle

HookNext ==
  \/ PerformIntelligentResearch
  \/ OrchestratorResolves
  \/ OrchestratorRejects
  \/ StopResearch

HookSpec == HookInit /\ [][HookNext]_vars

Busy(h) == h.isGenerating \/ h.isStreaming \/ h.isIntelligentResearching
ResearchStarted == Len(runs') = Len(runs) + 1

\* C38: stopResearch cancels the research: a run stopped during its await
\* of the orchestrator writes results and researchResult no more, and
\* isGenerating, isStreaming and isIntelligentResearching stay false until a
\* new research is started.
C38_StoppedRunWritesNothing ==
  /\ [](\A r \in 1..Len(runs) : runs[r].aborted => runs[r].writes = runs[r].writesAtAbort)
  /\ [][(~Busy(hook) /\ ~ResearchStarted) => ~Busy(hook')]_vars
\* the part of C38 that is about the three flags alone
C38_FlagsStayFalse ==
  [][(~Busy(hook) /\ ~ResearchStarted) => ~Busy(hook')]_vars
\* the answer of a stopped run shown after the stop
C38_StoppedRunWrote ==
  /\ Len(runs) = 1
  /\ runs[1].aborted
  /\ runs[1].state = "completed"
  /\ hook.results = "Cats purr."
  /\ hook.researchResult = Given(FormattedResult("Cats purr."))

=============================================================================
